---- MODULE Spec2Model ----
(***************************************************************************)
(* A model of the tool-calling orchestration loop of cloudflare/ai-utils   *)
(* (src/src/runWithTools.ts) together with the argument validator of       *)
(* src/src/logger.ts.  One run of runWithTools is modelled: every await of *)
(* the code (the selector, a model call, the invokers of a round joined by *)
(* Promise.all, the final model call) is a suspension point between two    *)
(* actions; the code between two awaits runs as one atomic step.           *)
(***************************************************************************)
EXTENDS Integers, Sequences, FiniteSets, TLC

(***************************************************************************)
(* Bounds of the model.                                                    *)
(***************************************************************************)
\* largest value of config.maxRecursiveToolRuns that is explored
MaxRuns == 1
\* largest number of entries of response.tool_calls
MaxCalls == 2
\* largest number of entries of tool_calls the model sends over the whole run
MaxToolCalls == 2

(***************************************************************************)
(* JSON values: the arguments of a tool-call request and invoker results.  *)
(***************************************************************************)
JStr(s) == [t |-> "string", v |-> s]
JNum(n, integral) == [t |-> "number", v |-> n, int |-> integral]
JBool(b) == [t |-> "boolean", v |-> b]
JNull == [t |-> "null"]
JArr(s) == [t |-> "array", v |-> s]
JObj(f) == [t |-> "object", v |-> f]

\* JSON.stringify(v): the JSON text of v, which is not v itself (the text of
\* a string carries its quotes and escapes).
JSONstringify(v) == [t |-> "jsontext", of |-> v]

\* a template literal `Error executing tool ${name}: ${message}`
ErrorText(name, message) ==
    [t |-> "text", head |-> "Error executing tool ", name |-> name,
     sep |-> ": ", message |-> message]

(***************************************************************************)
(* The argument validator (convertToZodSchema, validateArgsWithZod).       *)
(***************************************************************************)
SupportedTypes == {"string", "number", "integer", "boolean", "array", "object"}

\* a variant of the conversion that does not convert the nested schemas
ConvertThrowsTopLevel(schema) == schema.type \notin SupportedTypes

RECURSIVE ConvertThrows(_)
\* convertToZodSchema(schema) throws: the type is none of the six cases, or
\* the conversion of a nested schema throws
ConvertThrows(schema) ==
    CASE schema.type \notin SupportedTypes -> TRUE
      [] schema.type = "array" -> ConvertThrows(schema.items)
      [] schema.type = "object" ->
            \E key \in DOMAIN schema.properties :
                ConvertThrows(schema.properties[key])
      [] OTHER -> FALSE

RECURSIVE ZodParsesRequiredOnly(_, _)
\* a variant of the conversion that makes optional the properties of an
\* object schema that its `required` list does not name
ZodParsesRequiredOnly(schema, value) ==
    CASE schema.type = "string" -> value.t = "string"
      [] schema.type = "number" -> value.t = "number"
      [] schema.type = "integer" -> value.t = "number" /\ value.int
      [] schema.type = "boolean" -> value.t = "boolean"
      [] schema.type = "array" ->
            /\ value.t = "array"
            /\ \A i \in 1..Len(value.v) : ZodParsesRequiredOnly(schema.items, value.v[i])
      [] schema.type = "object" ->
            /\ value.t = "object"
            /\ \A key \in DOMAIN schema.properties :
                  IF key \in DOMAIN value.v
                  THEN ZodParsesRequiredOnly(schema.properties[key], value.v[key])
                  ELSE /\ "required" \in DOMAIN schema
                       /\ \A k \in 1..Len(schema.required) : schema.required[k] # key
      [] OTHER -> FALSE

RECURSIVE ZodParses(_, _)
\* the zod schema built by convertToZodSchema(schema) accepts value
ZodParses(schema, value) ==
    CASE schema.type = "string" -> value.t = "string"
      [] schema.type = "number" -> value.t = "number"
      [] schema.type = "integer" -> value.t = "number" /\ value.int
      [] schema.type = "boolean" -> value.t = "boolean"
      [] schema.type = "array" ->
            /\ value.t = "array"
            /\ \A i \in 1..Len(value.v) : ZodParses(schema.items, value.v[i])
      [] schema.type = "object" ->
            /\ value.t = "object"
            /\ \A key \in DOMAIN schema.properties :
                  /\ key \in DOMAIN value.v
                  /\ ZodParses(schema.properties[key], value.v[key])
      [] OTHER -> FALSE

\* validateArgsWithZod(args, properties): "throws" while the schema is built,
\* otherwise the boolean outcome of schema.parse(args)
validateArgsWithZod(args, properties) ==
    IF \E key \in DOMAIN properties : ConvertThrows(properties[key])
    THEN "throws"
    ELSE IF ZodParses([type |-> "object", properties |-> properties], args)
         THEN "true" ELSE "false"

UnsupportedMessage == <<"Unsupported schema type: ", "null">>

(***************************************************************************)
(* The inputs of a run.                                                    *)
(***************************************************************************)
Undefined == "undefined"
NoParameters == [defined |-> FALSE]
Parameters(props) == [defined |-> TRUE, type |-> "object", properties |-> props]

\* tool descriptors {name, parameters, function}
ToolA == [name |-> "a", parameters |-> Parameters([x |-> [type |-> "string"]]),
          function |-> "fa"]
ToolB == [name |-> "b", parameters |-> NoParameters, function |-> "fb"]
ToolC == [name |-> "c", parameters |-> Parameters([x |-> [type |-> "string"]]),
          function |-> Undefined]
ToolD == [name |-> "d", parameters |-> Parameters([y |-> [type |-> "null"]]),
          function |-> "fd"]

\* input.tools
InputTools == <<ToolA, ToolB, ToolC, ToolD>>

\* input.messages as the caller passes it
InputMessages == <<[role |-> "user", content |-> "prompt"]>>

GoodArgs == JObj([x |-> JStr("s")])
BadArgs == JObj([x |-> JNum(1, TRUE)])

\* the tool-call requests a model response may carry ("zz" names no tool)
Requests ==
    { [name |-> "a", arguments |-> GoodArgs],
      [name |-> "a", arguments |-> BadArgs],
      [name |-> "b", arguments |-> GoodArgs],
      [name |-> "c", arguments |-> GoodArgs],
      [name |-> "d", arguments |-> GoodArgs],
      [name |-> "zz", arguments |-> GoodArgs] }

\* a null entry of response.tool_calls
NullEntry == [name |-> "null", arguments |-> JNull]

RECURSIVE SeqsUpTo(_, _)
SeqsUpTo(S, n) ==
    IF n = 0 THEN {<<>>}
    ELSE LET shorter == SeqsUpTo(S, n - 1)
         IN  shorter \cup {Append(s, e) : s \in {q \in shorter : Len(q) = n - 1}, e \in S}

\* the responses of the model endpoint to a tool-offering call
Responses ==
    {[has_tool_calls |-> FALSE, tool_calls |-> <<>>]}
    \cup {[has_tool_calls |-> TRUE, tool_calls |-> s] :
            s \in SeqsUpTo(Requests \cup {NullEntry}, MaxCalls)}

\* the outputs of the model endpoint to the final call
FinalOutputs(stream) ==
    IF stream THEN {[kind |-> "stream", id |-> "s1"], [kind |-> "stream", id |-> "s2"]}
    ELSE {[kind |-> "object", id |-> "o1"], [kind |-> "object", id |-> "o2"]}

\* what an invoker throws or rejects with: an Error with a message (a text,
\* modelled as the sequence of its parts), or a
\* nullish value (reject() / throw undefined)
ErrorValue(m) == [isError |-> TRUE, message |-> m]
NullishValue == [isError |-> FALSE, message |-> <<>>]
Thrown == {ErrorValue(<<"boom">>), NullishValue}

\* how a call of invoker fn may end
SyncOutcomes(fn) ==
    IF fn = "fa"
    THEN {[how |-> "promise"], [how |-> "throw", error |-> ErrorValue(<<"boom">>)]}
    ELSE {[how |-> "promise"]}
SettleOutcomes(fn) ==
    IF fn = "fa"
    THEN {[how |-> "resolve", value |-> "r"]}
         \cup {[how |-> "reject", error |-> e] : e \in Thrown}
    ELSE {[how |-> "resolve", value |-> "r"]}

Configs ==
    [maxRecursiveToolRuns : 0..MaxRuns,
     streamFinalResponse : BOOLEAN,
     strictValidation : BOOLEAN,
     trimFunction : {"identity", "custom"}]


(***************************************************************************)
(* The state of one run.                                                   *)
(***************************************************************************)
VARIABLES
    cfg,                   \* the config object of the run
    arrays,                \* the message arrays on the heap, by reference
    tools,                 \* the offer list sent with tool-offering calls
    pc,                    \* the await the run is suspended at
    maxRecursiveToolRuns,  \* the remaining recursion budget of the current frame
    depth,                 \* the number of runAndProcessToolCall frames on the stack
    tool_calls,            \* the filtered tool calls of the current round
    rounds,                \* per round, the task of every tool call (toolCallPromises)
    firstReject,           \* the rejection Promise.all of the current round took
    aiCalls,               \* the inputs of the ai.run calls issued so far
    responses,             \* the responses of the tool-offering ai.run calls
    invocations,           \* the invoker calls started so far
    result,                \* the value runWithTools resolved with
    finalResponse,         \* the value the final ai.run call returned
    error,                 \* the error runWithTools rejected with
    candidates,            \* autoTrimTools: its parameter `tools`
    trimPc,                \* autoTrimTools: where the call stands
    trimCalls,             \* autoTrimTools: the inputs of its ai.run calls
    toolsResponse,         \* autoTrimTools: the response to its ai.run call
    returnedTools          \* autoTrimTools: the list it returns

trimVars == <<candidates, trimPc, trimCalls, toolsResponse, returnedTools>>

VARIABLES
    vArgs,                 \* validateArgsWithZod: the args it is called with
    vProperties,           \* validateArgsWithZod: the properties it is called with
    vResult                \* validateArgsWithZod: how the call ended

validateVars == <<vArgs, vProperties, vResult>>

VARIABLES
    spec,                  \* createToolsFromOpenAPISpec: its spec argument
    config,                \* createToolsFromOpenAPISpec: config.overrides
    oaPc,                  \* where the builder or the built invoker stands
    fetchCalls,            \* the fetch calls issued so far
    openapiSpec,           \* what fetchSpec resolved with
    oaTools,               \* the descriptors the builder returned
    oaCall,                \* the operation and args the invoker is called with
    toolResult,            \* what the invoker's promise settled with
    oaTurn                 \* the tool-role turn runWithTools pushes for it

openapiVars == <<spec, config, oaPc, fetchCalls, openapiSpec, oaTools, oaCall,
                 toolResult, oaTurn>>

VARIABLES
    enabled,               \* Logger.enabled, one per process
    logRuns,               \* the calls of runWithTools and createToolsFromOpenAPISpec
    console,               \* the lines the Logger wrote
    disables               \* the calls of Logger.disableLogging so far

loggerVars == <<enabled, logRuns, console, disables>>

\* the variables of the library functions checked on their own
libVars == <<validateVars, openapiVars, loggerVars>>

vars == <<cfg, arrays, tools, pc, maxRecursiveToolRuns, depth, tool_calls,
          rounds, firstReject, aiCalls, responses, invocations, result, finalResponse,
          error, trimVars, libVars>>

\* validateArgsWithZod is not being called
ValidateIdle ==
    /\ vArgs = [t |-> "undefined"]
    /\ vProperties = [k \in {} |-> [type |-> "string"]]
    /\ vResult = "idle"

NoDocument == [kind |-> "none"]
NoCall == [made |-> FALSE]
NoSettle == [how |-> "none"]
NoTurn == [role |-> "none"]

\* createToolsFromOpenAPISpec is not being called
OpenAPIIdle ==
    /\ spec = [text |-> "none", http |-> FALSE]
    /\ config = <<>>
    /\ oaPc = "idle"
    /\ fetchCalls = <<>>
    /\ openapiSpec = NoDocument
    /\ oaTools = <<>>
    /\ oaCall = NoCall
    /\ toolResult = NoSettle
    /\ oaTurn = NoTurn

\* the Logger as the module is loaded: private static enabled = false
LoggerIdle ==
    /\ enabled = FALSE
    /\ logRuns = <<>>
    /\ console = <<>>
    /\ disables = 0

LibIdle == ValidateIdle /\ OpenAPIIdle /\ LoggerIdle

\* the two message arrays: the caller's and the one made by [...input.messages]
InputArr == "input.messages"
LocalArr == "copy"

\* the array the const `messages` of runWithTools refers to
MessagesRefAliased == InputArr
MessagesRef == LocalArr

messages == arrays[MessagesRef]

NoValue == [kind |-> "none", id |-> ""]
NoError == [isError |-> FALSE, message |-> <<>>]
NoReject == [set |-> FALSE, message |-> <<>>]
NoResponse == [has_tool_calls |-> FALSE, tool_calls |-> <<>>, received |-> FALSE]

(***************************************************************************)
(* Pieces of runWithTools and runAndProcessToolCall.                       *)
(***************************************************************************)
\* tools.map((tool) => ({type: "function", function: {...tool, function: undefined}}))
\* a variant of the offer list that leaves the invoker in each entry
StripFunctionsKeeping(list) ==
    [i \in 1..Len(list) |-> [type |-> "function", function |-> list[i]]]

StripFunctions(list) ==
    [i \in 1..Len(list) |->
        [type |-> "function",
         function |-> [list[i] EXCEPT !.function = Undefined]]]

\* what the configured trimFunction resolves with: the default returns its
\* argument, the caller's one drops the first descriptor
TrimFunction(kind, list) ==
    IF kind = "identity" THEN list ELSE Tail(list)

\* the input of a tool-offering ai.run call
ToolCallInput(msgs, offer) ==
    [messages |-> msgs, stream |-> FALSE, tools |-> [present |-> TRUE, list |-> offer]]

\* a variant of the final call that still offers the tools
FinalCallInputOfferingTools(msgs, stream) ==
    [messages |-> msgs, stream |-> stream, tools |-> [present |-> TRUE, list |-> tools]]

\* the input of the final ai.run call
FinalCallInput(msgs, stream) ==
    [messages |-> msgs, stream |-> stream, tools |-> [present |-> FALSE]]

\* response.tool_calls?.filter(Boolean) ?? []
FilterBoolean(response) ==
    IF response.has_tool_calls
    THEN SelectSeq(response.tool_calls, LAMBDA c : c # NullEntry)
    ELSE <<>>

NotFound == [found |-> FALSE]

\* a variant of the lookup that falls back to the first descriptor
SelectedToolDefaulting(name) ==
    LET hits == {i \in 1..Len(InputTools) : InputTools[i].name = name}
    IN  [found |-> TRUE,
         tool |-> InputTools[IF hits = {} THEN 1
                             ELSE CHOOSE i \in hits : \A j \in hits : i <= j]]

\* input.tools.find((tool) => tool.name === name)
SelectedTool(name) ==
    LET hits == {i \in 1..Len(InputTools) : InputTools[i].name = name}
    IN  IF hits = {} THEN NotFound
        ELSE [found |-> TRUE,
              tool |-> InputTools[CHOOSE i \in hits : \A j \in hits : i <= j]]

\* fn !== undefined && selectedTool.parameters !== undefined
\* a variant of the test that does not look at the function
HasInvokerIgnoringFn(tool) == tool.parameters.defined

HasInvoker(tool) == tool.function # Undefined /\ tool.parameters.defined

\* strictValidation && !validateArgsWithZod(args, parameters.properties):
\* "throws", "skip" (the early return) or "invoke"
ValidationGate(strict, args, tool) ==
    IF ~strict THEN "invoke"
    ELSE LET v == validateArgsWithZod(args, tool.parameters.properties)
         IN  IF v = "throws" THEN "throws"
             ELSE IF v = "false" THEN "skip" ELSE "invoke"

AssistantTurn(call) == [role |-> "assistant", content |-> JSONstringify(call)]

\* a variant of the result turn that carries the returned string as it is
ToolResultTurnRaw(tool, value) ==
    [role |-> "tool", content |-> JStr(value), name |-> tool.name]

\* messages.push({role: "tool", content: JSON.stringify(result), name})
ToolResultTurn(tool, value) ==
    [role |-> "tool", content |-> JSONstringify(JStr(value)), name |-> tool.name]

ToolErrorTurn(tool, err) ==
    [role |-> "tool", content |-> ErrorText(tool.name, err.message), name |-> tool.name]

TypeErrorMessage == <<"Cannot read properties of undefined (reading 'message')">>

\* variants of the recursion test: without the budget, without the tool calls
RecurseIgnoringBudget(budget, calls) == Len(calls) > 0
RecurseIgnoringCalls(budget, calls) == budget > 0

\* a variant of the recursion test that wants a started invoker in the round
RecurseOnlyIfInvoked(budget, calls) ==
    /\ budget > 0
    /\ \E i \in 1..Len(rounds[Len(rounds)]) : rounds[Len(rounds)][i].fn # Undefined

\* maxRecursiveToolRuns > 0 && tool_calls.length > 0
Recurse(budget, calls) == budget > 0 /\ Len(calls) > 0

\* new Error(`${prefix}${error.message}`)
Wrap(prefix, e) == ErrorValue(<<prefix>> \o e.message)

RunAndProcessPrefix == "Error in runAndProcessToolCall: "
RunWithToolsPrefix == "Error in runWithTools: "

RECURSIVE Rethrow(_, _)
\* an error thrown in the innermost of `frames` nested runAndProcessToolCall
\* frames passes the catch block of each of them
Rethrow(e, frames) ==
    IF frames = 0 THEN e
    ELSE Rethrow(Wrap(RunAndProcessPrefix, e), frames - 1)

\* a variant of the return path that hands back only the text of the response
ReturnResponseText(value, frames) == [kind |-> "text", id |-> value.id]

RECURSIVE ReturnThrough(_, _)
\* `return finalResponse` in the innermost frame, `return await ...` in each
\* frame above it and `return result` in runWithTools
ReturnThrough(value, frames) ==
    IF frames = 0 THEN value ELSE ReturnThrough(value, frames - 1)

\* the error runWithTools rejects with
Rejection(e, frames) == Wrap(RunWithToolsPrefix, Rethrow(e, frames))

\* a variant of push that overwrites the last turn
PushOverLast(arrs, turn) ==
    [arrs EXCEPT ![MessagesRef] = Append(SubSeq(@, 1, Len(@) - 1), turn)]

Push(arrs, turn) == [arrs EXCEPT ![MessagesRef] = Append(@, turn)]

\* a variant of the callback that runs the tool without recording the request
PushAssistantOmitted(arrs, call) == arrs

\* messages.push({role: "assistant", content: JSON.stringify(toolCall)})
PushAssistant(arrs, call) == Push(arrs, AssistantTurn(call))

(***************************************************************************)
(* The synchronous part of one tool call's task (the body of the callback  *)
(* of tool_calls.map, up to its first await).                              *)
(***************************************************************************)
\* st: the state of the task; asst, tool: the positions of its assistant and
\* tool-role turns in messages (0: none); fn: the invoker it started; invoker:
\* how that call ended; message: the message of the error the task threw;
\* late: the task's continuation ran after the run had rejected
Task(call, st, asst, toolTurn, fn, invoker, msg) ==
    [call |-> call, st |-> st, asst |-> asst, tool |-> toolTurn, fn |-> fn,
     invoker |-> invoker, message |-> msg, late |-> FALSE]

Reject(d, msg) ==
    IF d.firstReject.set THEN d.firstReject ELSE [set |-> TRUE, message |-> msg]

\* d = [arrays, tasks, invocations, firstReject]; sync is how the invoker
\* call ends if the call reaches it; an invocation records, in `at`, the
\* length of messages when fn(args) is called
DispatchOne(d, call, rnd, sync) ==
    LET pushed == PushAssistant(d.arrays, call)
        asst == Len(pushed[MessagesRef])
        sel == SelectedTool(call.name)
        skip(st) == [d EXCEPT !.arrays = pushed,
                        !.tasks = Append(@, Task(call, st, asst, 0, Undefined, "none", <<>>))]
    IN  IF ~sel.found THEN skip("unknown")
        ELSE IF ~HasInvoker(sel.tool) THEN skip("noinvoker")
        ELSE LET gate == ValidationGate(cfg.strictValidation, call.arguments, sel.tool)
                 fn == sel.tool.function
                 inv == Append(d.invocations,
                           [round |-> rnd, index |-> Len(d.tasks) + 1,
                            fn |-> fn, arguments |-> call.arguments,
                            at |-> Len(pushed[MessagesRef])])
             IN  CASE gate = "throws" ->
                        [d EXCEPT !.arrays = pushed,
                            !.tasks = Append(@, Task(call, "thrown", asst, 0, Undefined,
                                                     "none", UnsupportedMessage)),
                            !.firstReject = Reject(d, UnsupportedMessage)]
                   [] gate = "skip" -> skip("invalid")
                   [] OTHER ->
                        IF sync.how = "throw"
                        THEN LET caught == Push(pushed, ToolErrorTurn(sel.tool, sync.error))
                             IN  [d EXCEPT !.arrays = caught,
                                     !.tasks = Append(@, Task(call, "failed", asst,
                                                 Len(caught[MessagesRef]), fn, "threw", <<>>)),
                                     !.invocations = inv]
                        ELSE [d EXCEPT !.arrays = pushed,
                                 !.tasks = Append(@, Task(call, "pending", asst, 0, fn, "pending", <<>>)),
                                 !.invocations = inv]

RECURSIVE DispatchReversed(_, _, _, _, _)
\* a variant of the map that runs the callback of the last request first
DispatchReversed(d, calls, rnd, plan, i) ==
    IF i > Len(calls) THEN d
    ELSE DispatchOne(DispatchReversed(d, calls, rnd, plan, i + 1), calls[i], rnd, plan[i])

RECURSIVE Dispatch(_, _, _, _, _)
\* tool_calls.map(async (toolCall) => ...): the callbacks run in order
Dispatch(d, calls, rnd, plan, i) ==
    IF i > Len(calls) THEN d
    ELSE Dispatch(DispatchOne(d, calls[i], rnd, plan[i]), calls, rnd, plan, i + 1)

\* the invoker a call reaches, Undefined if it reaches none
Reached(call) ==
    LET sel == SelectedTool(call.name)
    IN  IF sel.found /\ HasInvoker(sel.tool)
           /\ ValidationGate(cfg.strictValidation, call.arguments, sel.tool) = "invoke"
        THEN sel.tool.function ELSE Undefined

\* one way for each invoker call of the round to end synchronously
Plans(calls) ==
    {plan \in [1..Len(calls) -> UNION {SyncOutcomes(f) : f \in {"fa", "fd", Undefined}}] :
        \A i \in 1..Len(calls) : plan[i] \in SyncOutcomes(Reached(calls[i]))}


(***************************************************************************)
(* The run.                                                                *)
(***************************************************************************)
Init ==
    /\ cfg \in Configs
    /\ arrays = [r \in {InputArr, LocalArr} |-> InputMessages]
    /\ tools = <<>>
    /\ pc = "start"
    /\ maxRecursiveToolRuns = cfg.maxRecursiveToolRuns
    /\ depth = 0
    /\ tool_calls = <<>>
    /\ rounds = <<>>
    /\ firstReject = NoReject
    /\ aiCalls = <<>>
    /\ responses = <<>>
    /\ invocations = <<>>
    /\ result = NoValue
    /\ finalResponse = NoValue
    /\ error = NoError
    /\ candidates = <<>>
    /\ trimPc = "idle"
    /\ trimCalls = <<>>
    /\ toolsResponse = NoResponse
    /\ returnedTools = <<>>
    /\ LibIdle

\* runWithTools up to `await trimFunction(...)`
RunWithTools ==
    /\ pc = "start"
    /\ tools' = StripFunctions(InputTools)
    /\ pc' = "trim"
    /\ UNCHANGED trimVars
    /\ UNCHANGED libVars
    /\ UNCHANGED <<cfg, arrays, maxRecursiveToolRuns, depth, tool_calls, rounds,
                   firstReject, aiCalls, responses, invocations, result, finalResponse,
                   error>>

\* the selector resolves; runAndProcessToolCall is entered and issues the
\* first tool-offering ai.run call
TrimReturns ==
    /\ pc = "trim"
    /\ tools' = StripFunctions(TrimFunction(cfg.trimFunction, InputTools))
    /\ depth' = 1
    /\ aiCalls' = Append(aiCalls, ToolCallInput(messages, tools'))
    /\ pc' = "model"
    /\ UNCHANGED trimVars
    /\ UNCHANGED libVars
    /\ UNCHANGED <<cfg, arrays, maxRecursiveToolRuns, tool_calls, rounds,
                   firstReject, responses, invocations, result, finalResponse, error>>

RECURSIVE SumLen(_)
SumLen(s) == IF s = <<>> THEN 0 ELSE Len(Head(s).tool_calls) + SumLen(Tail(s))

\* the entries of tool_calls the model has sent so far
TotalCalls == SumLen(responses)

\* a tool-offering ai.run call resolves: its tool calls are filtered and the
\* task of each is run up to its first await; the frame then awaits Promise.all
ModelResponds ==
    /\ pc = "model"
    /\ \E response \in Responses :
         /\ Len(response.tool_calls) + TotalCalls <= MaxToolCalls
         /\ \E plan \in Plans(FilterBoolean(response)) :
              LET calls == FilterBoolean(response)
                  d == Dispatch([arrays |-> arrays, tasks |-> <<>>,
                                 invocations |-> invocations, firstReject |-> NoReject],
                                calls, Len(rounds) + 1, plan, 1)
              IN  /\ tool_calls' = calls
                  /\ arrays' = d.arrays
                  /\ rounds' = Append(rounds, d.tasks)
                  /\ invocations' = d.invocations
                  /\ firstReject' = d.firstReject
                  /\ responses' = Append(responses, response)
    /\ pc' = "join"
    /\ UNCHANGED trimVars
    /\ UNCHANGED libVars
    /\ UNCHANGED <<cfg, tools, maxRecursiveToolRuns, depth, aiCalls, result,
                   finalResponse, error>>

\* a variant in which a frame answers a failed ai.run call by issuing it again
ModelThrowsRetrying ==
    /\ pc \in {"model", "final"}
    /\ aiCalls' = Append(aiCalls, aiCalls[Len(aiCalls)])
    /\ UNCHANGED trimVars
    /\ UNCHANGED libVars
    /\ UNCHANGED <<cfg, arrays, tools, pc, maxRecursiveToolRuns, depth, tool_calls, rounds,
                   firstReject, responses, invocations, result, finalResponse, error>>

\* an ai.run call of the loop throws: every frame on the stack catches, wraps
\* and rethrows, and so does runWithTools
ModelThrows ==
    /\ pc \in {"model", "final"}
    /\ error' = Rejection(ErrorValue(<<"ai.run failed">>), depth)
    /\ pc' = "rejected"
    /\ UNCHANGED trimVars
    /\ UNCHANGED libVars
    /\ UNCHANGED <<cfg, arrays, tools, maxRecursiveToolRuns, depth, tool_calls, rounds,
                   firstReject, aiCalls, responses, invocations, result, finalResponse>>

\* the promise of a started invoker settles and its task runs to its end
InvokerSettles ==
    /\ rounds # <<>>
    /\ \E i \in 1..Len(rounds[Len(rounds)]) :
         LET task == rounds[Len(rounds)][i]
             tool == SelectedTool(task.call.name).tool
             set(t) == [rounds EXCEPT ![Len(rounds)][i] = t]
         IN  /\ task.st = "pending"
             /\ \E o \in SettleOutcomes(task.fn) :
                  CASE o.how = "resolve" ->
                         /\ arrays' = Push(arrays, ToolResultTurn(tool, o.value))
                         /\ rounds' = set([task EXCEPT !.st = "done", !.invoker = "resolved",
                                             !.late = (pc = "rejected"),
                                             !.tool = Len(arrays'[MessagesRef])])
                         /\ UNCHANGED firstReject
                    [] o.how = "reject" /\ o.error.isError ->
                         /\ arrays' = Push(arrays, ToolErrorTurn(tool, o.error))
                         /\ rounds' = set([task EXCEPT !.st = "failed", !.invoker = "rejected",
                                             !.late = (pc = "rejected"),
                                             !.tool = Len(arrays'[MessagesRef])])
                         /\ UNCHANGED firstReject
                    [] OTHER ->
                         \* reading .message of a nullish value throws in the catch block
                         /\ rounds' = set([task EXCEPT !.st = "thrown", !.invoker = "rejected",
                                             !.late = (pc = "rejected"),
                                             !.message = TypeErrorMessage])
                         /\ firstReject' =
                              Reject([firstReject |-> firstReject], TypeErrorMessage)
                         /\ UNCHANGED arrays
    /\ UNCHANGED trimVars
    /\ UNCHANGED libVars
    /\ UNCHANGED <<cfg, tools, pc, maxRecursiveToolRuns, depth, tool_calls, aiCalls,
                   responses, invocations, result, finalResponse, error>>

\* a variant of the barrier that does not wait for the pending invokers
SettledIgnoringPending(task) == task.st # "thrown"

\* the task's promise is fulfilled
Settled(task) == task.st \notin {"pending", "thrown"}

\* Promise.all resolves: the frame recurses with another tool-offering call,
\* or issues the final call
Join ==
    /\ pc = "join"
    /\ \A i \in 1..Len(rounds[Len(rounds)]) : Settled(rounds[Len(rounds)][i])
    /\ IF Recurse(maxRecursiveToolRuns, tool_calls)
       THEN /\ maxRecursiveToolRuns' = maxRecursiveToolRuns - 1
            /\ depth' = depth + 1
            /\ aiCalls' = Append(aiCalls, ToolCallInput(messages, tools))
            /\ pc' = "model"
       ELSE /\ aiCalls' = Append(aiCalls, FinalCallInput(messages, cfg.streamFinalResponse))
            /\ pc' = "final"
            /\ UNCHANGED <<maxRecursiveToolRuns, depth>>
    /\ UNCHANGED trimVars
    /\ UNCHANGED libVars
    /\ UNCHANGED <<cfg, arrays, tools, tool_calls, rounds, firstReject, responses,
                   invocations, result, finalResponse, error>>

\* a variant of the barrier that rejects only once every task has settled
RejectsWhenAllSettled(tasks, rej) ==
    rej.set /\ \A i \in 1..Len(tasks) : tasks[i].st # "pending"

\* Promise.all rejects as soon as one of its promises rejects
RejectsImmediately(tasks, rej) == rej.set

\* Promise.all rejects with the first rejection of a task of the round
JoinRejects ==
    /\ pc = "join"
    /\ RejectsImmediately(rounds[Len(rounds)], firstReject)
    /\ error' = Rejection(ErrorValue(firstReject.message), depth)
    /\ pc' = "rejected"
    /\ UNCHANGED trimVars
    /\ UNCHANGED libVars
    /\ UNCHANGED <<cfg, arrays, tools, maxRecursiveToolRuns, depth, tool_calls, rounds,
                   firstReject, aiCalls, responses, invocations, result, finalResponse>>

\* the final ai.run call resolves and its value is returned through every frame
FinalResponds ==
    /\ pc = "final"
    /\ \E out \in FinalOutputs(aiCalls[Len(aiCalls)].stream) :
         /\ finalResponse' = out
         /\ result' = ReturnThrough(out, depth)
    /\ pc' = "resolved"
    /\ UNCHANGED trimVars
    /\ UNCHANGED libVars
    /\ UNCHANGED <<cfg, arrays, tools, maxRecursiveToolRuns, depth, tool_calls, rounds,
                   firstReject, aiCalls, responses, invocations, error>>

Next ==
    \/ RunWithTools
    \/ TrimReturns
    \/ ModelResponds
    \/ ModelThrows
    \/ InvokerSettles
    \/ Join
    \/ JoinRejects
    \/ FinalResponds

Spec == Init /\ [][Next]_vars


(***************************************************************************)
(* Vocabulary of the properties.                                           *)
(***************************************************************************)
ToolNames == {InputTools[i].name : i \in 1..Len(InputTools)}

\* the tasks of the run: round r, position i
TaskIds == UNION {{<<r, i>> : i \in 1..Len(rounds[r])} : r \in 1..Len(rounds)}
TaskAt(id) == rounds[id[1]][id[2]]

\* the invoker calls started for task id
InvocationsOf(id) ==
    {k \in 1..Len(invocations) :
        invocations[k].round = id[1] /\ invocations[k].index = id[2]}
Invoked(id) == InvocationsOf(id) # {}

ToolTurns == {k \in 1..Len(messages) : messages[k].role = "tool"}

\* the rounds in which tool-call requests were processed
DispatchRounds == Cardinality({r \in 1..Len(rounds) : rounds[r] # <<>>})

\* a response without tool calls: tool_calls missing, empty or all null
NoRequests(response) ==
    \/ ~response.has_tool_calls
    \/ \A i \in 1..Len(response.tool_calls) : response.tool_calls[i] = NullEntry

ToolLess(call) == ~call.tools.present

(***************************************************************************)
(* C1 (as stated): with maxRecursiveToolRuns = N the run performs at most  *)
(* N rounds in which tool-call requests are processed.                     *)
(***************************************************************************)
C1_AtMostNRounds == DispatchRounds <= cfg.maxRecursiveToolRuns

(***************************************************************************)
(* C1 (amended): with maxRecursiveToolRuns = N the run performs at most    *)
(* N + 1 dispatch rounds, and exactly N + 1 before the final call when     *)
(* every tool-offering call was answered with at least one tool call.      *)
(***************************************************************************)
C1_AtMostNPlusOneRounds ==
    /\ DispatchRounds <= cfg.maxRecursiveToolRuns + 1
    /\ Len(rounds) <= cfg.maxRecursiveToolRuns + 1
    /\ (pc \in {"final", "resolved"} /\ DispatchRounds = Len(rounds))
          => DispatchRounds = cfg.maxRecursiveToolRuns + 1

C1_Witness ==
    /\ pc = "final"
    /\ cfg.maxRecursiveToolRuns = 1
    /\ DispatchRounds = 2

(***************************************************************************)
(* C2: without a selector, when the first response carries no tool call    *)
(* (tool_calls missing, empty or all null), whatever maxRecursiveToolRuns  *)
(* is: no invoker is called, no turn is appended, the second model call is *)
(* the only further one, it offers no tools, and the run resolves with its *)
(* output.                                                                 *)
(***************************************************************************)
C2_NoToolCallTermination ==
    (cfg.trimFunction = "identity" /\ responses # <<>> /\ NoRequests(responses[1]))
    => /\ invocations = <<>>
       /\ Len(responses) = 1
       /\ messages = InputMessages
       /\ pc \in {"join", "final", "resolved", "rejected"}
       /\ pc = "join" => Len(aiCalls) = 1
       /\ pc # "join" => Len(aiCalls) = 2 /\ ToolLess(aiCalls[2])
       /\ pc = "resolved" => result = finalResponse /\ result # NoValue

C2_Witness ==
    /\ pc = "resolved"
    /\ cfg.trimFunction = "identity"
    /\ cfg.maxRecursiveToolRuns = 1
    /\ responses = <<[has_tool_calls |-> TRUE, tool_calls |-> <<NullEntry>>]>>
    /\ Len(aiCalls) = 2

(***************************************************************************)
(* C3: when a run has resolved, its last model call carried no tools and   *)
(* stream = config.streamFinalResponse; every earlier one carried the      *)
(* offer list and stream = false; so exactly one call is tool-less.        *)
(***************************************************************************)
C3_FinalCallShape ==
    pc = "resolved"
    => /\ Len(aiCalls) >= 2
       /\ ToolLess(aiCalls[Len(aiCalls)])
       /\ aiCalls[Len(aiCalls)].stream = cfg.streamFinalResponse
       /\ \A i \in 1..Len(aiCalls) - 1 :
            /\ aiCalls[i].tools.present
            /\ aiCalls[i].tools.list = tools
            /\ aiCalls[i].stream = FALSE
       /\ Cardinality({i \in 1..Len(aiCalls) : ToolLess(aiCalls[i])}) = 1

C3_Witness ==
    /\ pc = "resolved"
    /\ Len(aiCalls) = 3
    /\ cfg.streamFinalResponse

(***************************************************************************)
(* C4: the value runWithTools resolves with is the value the final model   *)
(* call returned, at every recursion depth, streamed or not.               *)
(***************************************************************************)
C4_ResultIsFinalOutput ==
    pc = "resolved" => result = finalResponse /\ result # NoValue

C4_Witness ==
    /\ pc = "resolved"
    /\ depth = 2
    /\ cfg.streamFinalResponse
    /\ result.kind = "stream"

(***************************************************************************)
(* C5 (as stated): whenever an invoker throws or rejects, its task appends *)
(* a tool-role turn that carries the tool's name and, in its content, the  *)
(* tool's name and the failure message, and the task does not fail, so     *)
(* the run does not reject because of it.                                  *)
(***************************************************************************)
C5_InvokerFailureIsolation ==
    \A id \in TaskIds :
        TaskAt(id).invoker \in {"threw", "rejected"}
        => /\ TaskAt(id).st = "failed"
           /\ TaskAt(id).tool # 0
           /\ messages[TaskAt(id).tool].role = "tool"
           /\ messages[TaskAt(id).tool].name = TaskAt(id).call.name
           /\ messages[TaskAt(id).tool].content.name = TaskAt(id).call.name
           /\ messages[TaskAt(id).tool].content.message = <<"boom">>

(***************************************************************************)
(* C6: a request whose name matches no descriptor starts no invoker,       *)
(* produces no tool-role turn (every tool-role turn belongs to a task that *)
(* recorded it), does not fail its task, and the other requests of its     *)
(* round are dispatched as they would be without it.                       *)
(***************************************************************************)
C6_HallucinatedToolName ==
    /\ \A id \in TaskIds :
         TaskAt(id).call.name \notin ToolNames
         => /\ TaskAt(id).st = "unknown"
            /\ TaskAt(id).tool = 0
            /\ ~Invoked(id)
            /\ Len(rounds[id[1]]) = Len(SelectSeq(responses[id[1]].tool_calls,
                                                  LAMBDA c : c # NullEntry))
            /\ \A other \in TaskIds :
                 (other[1] = id[1] /\ Reached(TaskAt(other).call) # Undefined)
                 => Invoked(other)
    /\ ToolTurns = {TaskAt(id).tool : id \in TaskIds} \ {0}

C6_Witness ==
    /\ pc = "resolved"
    /\ \E r \in 1..Len(rounds) :
         /\ Len(rounds[r]) = 2
         /\ rounds[r][1].call.name = "zz"
         /\ rounds[r][2].st = "done"

(***************************************************************************)
(* C7 (as stated): under strictValidation, a request that reaches the gate *)
(* with arguments failing validation starts no invoker, gets no tool-role  *)
(* turn and does not fail its task; one whose arguments pass is invoked    *)
(* and gets a tool-role turn once its invoker has ended.                   *)
(***************************************************************************)
C7_StrictValidationGate ==
    cfg.strictValidation
    => \A id \in TaskIds :
         LET task == TaskAt(id)
             sel == SelectedTool(task.call.name)
         IN  (sel.found /\ HasInvoker(sel.tool))
             => LET v == validateArgsWithZod(task.call.arguments,
                                             sel.tool.parameters.properties)
                IN  /\ v = "false"
                         => ~Invoked(id) /\ task.tool = 0 /\ task.st = "invalid"
                    /\ v = "true"
                         => /\ Cardinality(InvocationsOf(id)) = 1
                            /\ task.invoker # "pending"
                                 => task.tool # 0 /\ messages[task.tool].role = "tool"

(***************************************************************************)
(* C8 (as stated): without strictValidation, every request naming a        *)
(* descriptor that has an invoker starts that invoker exactly once, with   *)
(* the request's arguments, and gets exactly one tool-role turn once the   *)
(* invoker has ended.                                                      *)
(***************************************************************************)
C8_NonStrictPassThrough ==
    ~cfg.strictValidation
    => \A id \in TaskIds :
         LET task == TaskAt(id)
             sel == SelectedTool(task.call.name)
         IN  (sel.found /\ sel.tool.function # Undefined)
             => /\ Cardinality(InvocationsOf(id)) = 1
                /\ \A k \in InvocationsOf(id) :
                     /\ invocations[k].fn = sel.tool.function
                     /\ invocations[k].arguments = task.call.arguments
                /\ task.invoker # "pending"
                     => task.tool # 0 /\ messages[task.tool].role = "tool"

(***************************************************************************)
(* C9: the caller's input.messages is never changed: every turn goes to    *)
(* the run's own copy.                                                     *)
(***************************************************************************)
C9_InputNotMutated == arrays[InputArr] = InputMessages

C9_Witness ==
    /\ pc = "rejected"
    /\ Len(rounds) = 2
    /\ Len(messages) > Len(InputMessages) + 2

(***************************************************************************)
(* C10 (as stated): when a model call of the loop throws, at whatever      *)
(* depth, the error runWithTools rejects with carries each phase prefix    *)
(* exactly once.                                                           *)
(***************************************************************************)
C10_PrefixOnce ==
    (pc = "rejected" /\ error.message[Len(error.message)] = "ai.run failed")
    => error.message = <<RunWithToolsPrefix, RunAndProcessPrefix, "ai.run failed">>


\* the run was rejected because an ai.run call of the loop threw
ModelFailed ==
    pc = "rejected" /\ error.message[Len(error.message)] = "ai.run failed"

(***************************************************************************)
(* C11: no model call is issued before the previous one was answered, and  *)
(* no invoker is started twice for a request; once an ai.run call of the   *)
(* loop has thrown the run is rejected with nothing in flight, and from    *)
(* then on no model call is issued and no invoker is started.              *)
(***************************************************************************)
C11_NoRetry ==
    /\ [](/\ Len(aiCalls) <= Len(responses) + 1
          /\ \A id \in TaskIds : Cardinality(InvocationsOf(id)) <= 1
          /\ ModelFailed => \A id \in TaskIds : TaskAt(id).st # "pending")
    /\ [][ModelFailed => /\ aiCalls' = aiCalls
                         /\ invocations' = invocations
                         /\ pc' = "rejected"]_vars

C11_Witness ==
    /\ ModelFailed
    /\ depth = 2
    /\ Len(aiCalls) = 2
    /\ invocations # <<>>


(***************************************************************************)
(* C12 (as stated): runWithTools rejects only when an ai.run call of the   *)
(* loop threw; no handling of a tool-call request makes it reject.         *)
(***************************************************************************)
C12_RejectsOnlyOnModelFailure ==
    pc = "rejected" => error.message[Len(error.message)] = "ai.run failed"


\* the names of the descriptors the selector returned
ChosenNames ==
    {TrimFunction(cfg.trimFunction, InputTools)[i].name :
        i \in 1..Len(TrimFunction(cfg.trimFunction, InputTools))}

(***************************************************************************)
(* C13 (as stated): after the selector has returned, every tool-offering   *)
(* call offers exactly the descriptors it returned, and a request naming   *)
(* a descriptor that is not among them is handled like an unknown tool:    *)
(* no invoker is started and no tool-role turn is appended for it.         *)
(***************************************************************************)
C13_NarrowedListUsed ==
    /\ \A k \in 1..Len(aiCalls) :
         aiCalls[k].tools.present
         => {aiCalls[k].tools.list[i].function.name :
                i \in 1..Len(aiCalls[k].tools.list)} = ChosenNames
    /\ \A id \in TaskIds :
         TaskAt(id).call.name \notin ChosenNames
         => /\ TaskAt(id).st = "unknown"
            /\ TaskAt(id).tool = 0
            /\ ~Invoked(id)


(***************************************************************************)
(* The tool selector autoTrimTools (src/src/logger.ts), on its own: one    *)
(* call of it, with the candidates and the model's response drawn from     *)
(* bounded sets.                                                           *)
(***************************************************************************)
\* largest number of candidate tools
MaxCandidates == 6
\* largest number of entries of the tool_calls of the selector's response
MaxTrimCalls == 2
\* largest number of names in the `tools` argument of a chooseTool call
MaxChosen == 2

\* tools.length < 5
TrimThreshold == 5

CandidateNames == <<"t1", "t2", "t3", "t4", "t5", "t6", "t7", "t8">>

\* the candidate lists: the first n of the named descriptors
Candidates(n) ==
    [i \in 1..n |-> [name |-> CandidateNames[i], parameters |-> NoParameters,
                     function |-> "fn"]]

\* the names a chooseTool call may carry ("zz" names no candidate)
ChosenPool == {"t2", "t5", "zz"}

JUndefined == [t |-> "undefined"]
EmptyObject == JObj([k \in {} |-> JNull])

\* the `arguments` of a chooseTool call: missing, null, without `tools`,
\* with a `tools` that is no array, or with an array of names
ChooseArguments ==
    {JUndefined, JNull, EmptyObject, JObj([tools |-> JStr("t2")])}
    \cup {JObj([tools |-> JArr(names)]) :
            names \in SeqsUpTo({JStr(n) : n \in ChosenPool}, MaxChosen)}

\* the responses of the model endpoint to the selector's call
TrimResponses ==
    {[has_tool_calls |-> FALSE, tool_calls |-> <<>>, received |-> TRUE]}
    \cup {[has_tool_calls |-> TRUE, tool_calls |-> calls, received |-> TRUE] :
            calls \in SeqsUpTo({[name |-> "chooseTool", arguments |-> a] :
                                   a \in ChooseArguments} \cup {NullEntry},
                               MaxTrimCalls)}

\* the synthetic tool of the selector
ChooseTools ==
    [name |-> "chooseTool",
     description |-> "This tool will choose the best tools for a given task",
     parameters |-> [type |-> "object",
                     properties |-> [tools |-> [type |-> "array",
                                                items |-> [type |-> "string"]]],
                     required |-> <<"tools">>]]

\* the prompt: the candidate names joined and JSON.stringify(messages)
ToolsPrompt(list, msgs) ==
    [t |-> "text", names |-> [i \in 1..Len(list) |-> list[i].name],
     messages |-> JSONstringify(msgs)]

\* the input of the selector's ai.run call
ChooseToolCallInput(list, msgs) ==
    [messages |-> <<[role |-> "user", content |-> ToolsPrompt(list, msgs)]>>,
     stream |-> FALSE,
     tools |-> [present |-> TRUE,
                list |-> <<[type |-> "function", function |-> ChooseTools]>>]]

\* a variant of the size test that also skips exactly five candidates
SkipsTrimInclusive(list) == Len(list) <= TrimThreshold

\* tools.length < 5
SkipsTrim(list) == Len(list) < TrimThreshold

\* toolsResponse.tool_calls?.filter(Boolean): undefined when tool_calls is missing
ChooseToolCalls(response) ==
    [defined |-> response.has_tool_calls,
     calls |-> SelectSeq(response.tool_calls, LAMBDA c : c # NullEntry)]

\* a variant of the membership test that looks at the first name only
IncludesFirstOnly(arr, name) == Len(arr.v) > 0 /\ arr.v[1] = JStr(name)

\* tools.includes(tool.name)
Includes(arr, name) == \E i \in 1..Len(arr.v) : arr.v[i] = JStr(name)

\* lines 179-191 of autoTrimTools: what the call ends with for a response
AutoTrimOutcome(list, response) ==
    LET chosen == ChooseToolCalls(response)
    IN  IF ~(chosen.defined /\ Len(chosen.calls) > 0)
        THEN [threw |-> FALSE, tools |-> list]
        ELSE LET args == chosen.calls[1].arguments
             IN  IF args.t \in {"undefined", "null"}
                 THEN \* reading .tools of undefined or null throws a TypeError
                      [threw |-> TRUE, tools |-> list]
                 ELSE IF args.t = "object" /\ "tools" \in DOMAIN args.v
                         /\ args.v.tools.t = "array"
                      THEN [threw |-> FALSE,
                            tools |-> SelectSeq(list,
                                        LAMBDA tool : Includes(args.v.tools, tool.name))]
                      ELSE [threw |-> FALSE, tools |-> list]

\* the run of runWithTools is not part of this specification
RunIdle ==
    /\ cfg = [maxRecursiveToolRuns |-> 0, streamFinalResponse |-> FALSE,
              strictValidation |-> FALSE, trimFunction |-> "identity"]
    /\ arrays = [r \in {InputArr, LocalArr} |-> InputMessages]
    /\ tools = <<>>
    /\ pc = "idle"
    /\ maxRecursiveToolRuns = 0
    /\ depth = 0
    /\ tool_calls = <<>>
    /\ rounds = <<>>
    /\ firstReject = NoReject
    /\ aiCalls = <<>>
    /\ responses = <<>>
    /\ invocations = <<>>
    /\ result = NoValue
    /\ finalResponse = NoValue
    /\ error = NoError

runVars == <<cfg, arrays, tools, pc, maxRecursiveToolRuns, depth, tool_calls,
             rounds, firstReject, aiCalls, responses, invocations, result,
             finalResponse, error>>

TrimInit ==
    /\ RunIdle
    /\ candidates \in {Candidates(n) : n \in 0..MaxCandidates}
    /\ trimPc = "start"
    /\ trimCalls = <<>>
    /\ toolsResponse = NoResponse
    /\ returnedTools = <<>>
    /\ LibIdle

\* autoTrimTools up to its return (fewer than five tools) or its ai.run call
AutoTrimTools ==
    /\ trimPc = "start"
    /\ returnedTools' = candidates
    /\ IF SkipsTrim(candidates)
       THEN trimPc' = "returned" /\ UNCHANGED trimCalls
       ELSE /\ trimCalls' = Append(trimCalls, ChooseToolCallInput(candidates, InputMessages))
            /\ trimPc' = "awaiting"
    /\ UNCHANGED <<candidates, toolsResponse, runVars, libVars>>

\* the selector's ai.run call resolves
AutoTrimResponds ==
    /\ trimPc = "awaiting"
    /\ \E response \in TrimResponses :
         LET out == AutoTrimOutcome(candidates, response)
         IN  /\ toolsResponse' = response
             /\ returnedTools' = out.tools
             /\ trimPc' = IF out.threw THEN "threw" ELSE "returned"
    /\ UNCHANGED <<candidates, trimCalls, runVars, libVars>>

\* the selector's ai.run call throws: autoTrimTools rejects with its error
AutoTrimModelThrows ==
    /\ trimPc = "awaiting"
    /\ trimPc' = "threw"
    /\ UNCHANGED <<candidates, trimCalls, toolsResponse, returnedTools, runVars, libVars>>

TrimNext ==
    \/ AutoTrimTools
    \/ AutoTrimResponds
    \/ AutoTrimModelThrows

SpecTrim == TrimInit /\ [][TrimNext]_vars


\* C14: autoTrimTools called with 4 or fewer candidates returns them
\* unchanged and issues no model call; called with 5 or more it issues
\* exactly one model call, which offers only the synthetic chooseTool tool.
C14_SelectorThreshold ==
    /\ (trimPc # "start" /\ Len(candidates) <= 4) =>
          /\ trimPc = "returned"
          /\ returnedTools = candidates
          /\ trimCalls = <<>>
    /\ (trimPc # "start" /\ Len(candidates) >= 5) =>
          /\ Len(trimCalls) = 1
          /\ Len(trimCalls[1].tools.list) = 1
          /\ trimCalls[1].tools.list[1].function.name = "chooseTool"

C14_Witness ==
    /\ trimPc = "returned"
    /\ Len(candidates) = 5
    /\ Len(trimCalls) = 1
    /\ toolsResponse.received

UnusableArguments(args) ==
    \/ args.t \in {"undefined", "null"}
    \/ args.t = "object" /\ "tools" \notin DOMAIN args.v
    \/ args.t = "object" /\ "tools" \in DOMAIN args.v /\ args.v.tools.t # "array"
    \/ /\ args.t = "object" /\ "tools" \in DOMAIN args.v /\ args.v.tools.t = "array"
       /\ \A i \in 1..Len(args.v.tools.v) :
            \A j \in 1..Len(candidates) : args.v.tools.v[i] # JStr(candidates[j].name)

UnusableResponse ==
    /\ toolsResponse.received
    /\ LET chosen == ChooseToolCalls(toolsResponse)
       IN  \/ ~chosen.defined
           \/ chosen.calls = <<>>
           \/ UnusableArguments(chosen.calls[1].arguments)

\* C15: with 5 or more candidates and a response that carries no tool call
\* or a malformed one (missing or null arguments, a tools value that is no
\* array, an empty list, names matching no candidate), autoTrimTools returns
\* the full candidate set and does not throw.
C15_SelectorFailsOpen ==
    (Len(candidates) >= 5 /\ UnusableResponse) =>
        /\ trimPc = "returned"
        /\ returnedTools = candidates

IsSubSeq(sub, full) ==
    \E keep \in SUBSET (1..Len(full)) :
        sub = SelectSeq(full, LAMBDA tool : \E i \in keep : full[i] = tool)

FirstCallNames ==
    LET chosen == ChooseToolCalls(toolsResponse)
    IN  IF chosen.defined /\ chosen.calls # <<>>
           /\ chosen.calls[1].arguments.t = "object"
           /\ "tools" \in DOMAIN chosen.calls[1].arguments.v
           /\ chosen.calls[1].arguments.v.tools.t = "array"
        THEN [given |-> TRUE,
              S |-> {chosen.calls[1].arguments.v.tools.v[i] :
                       i \in 1..Len(chosen.calls[1].arguments.v.tools.v)}]
        ELSE [given |-> FALSE, S |-> {}]

\* C16: with 5 or more candidates and a response whose first tool call
\* carries an array of names S, autoTrimTools returns exactly the candidates
\* whose name is in S, in their original order; whatever it returns is a
\* sub-sequence of the candidates.
C16_SelectorFilters ==
    /\ (toolsResponse.received /\ Len(candidates) >= 5 /\ FirstCallNames.given) =>
          /\ trimPc = "returned"
          /\ returnedTools =
               SelectSeq(candidates, LAMBDA tool : JStr(tool.name) \in FirstCallNames.S)
    /\ IsSubSeq(returnedTools, candidates)

C16_Witness ==
    /\ trimPc = "returned"
    /\ Len(candidates) >= 5
    /\ FirstCallNames.given
    /\ toolsResponse.tool_calls[1] # NullEntry
    /\ toolsResponse.tool_calls[1].arguments.v.tools.v = <<JStr("t5"), JStr("t2")>>
    /\ Len(returnedTools) = 2
    /\ returnedTools[1].name = "t2"
    /\ returnedTools[2].name = "t5"


(***************************************************************************)
(* The run of runWithTools, continued.                                     *)
(***************************************************************************)
\* the ai.run calls that offer tools
OfferingCalls == {k \in 1..Len(aiCalls) : aiCalls[k].tools.present}

\* C17: in every model call of a run (every round, with the default or the
\* caller's selector), each offered tool entry has no invoker: its function
\* field is undefined.
C17_FunctionNeverSent ==
    /\ \A i \in 1..Len(tools) : tools[i].function.function = Undefined
    /\ \A k \in OfferingCalls :
         \A i \in 1..Len(aiCalls[k].tools.list) :
            /\ aiCalls[k].tools.list[i].function.function = Undefined
            /\ DOMAIN aiCalls[k].tools.list[i] = {"type", "function"}

C17_Witness ==
    /\ cfg.trimFunction = "custom"
    /\ Cardinality(OfferingCalls) = 2
    /\ \E i \in 1..Len(aiCalls[2].tools.list) :
         /\ aiCalls[2].tools.list[i].function.name = "b"
         /\ SelectedTool("b").tool.function # Undefined


\* C18: for every tool-call request of every round and every completion
\* order of the invokers, the request's assistant turn is in the
\* conversation before its invoker is started and before its tool-role
\* turn; no tool-role turn precedes the assistant turn of its request.
C18_CausalOrder ==
    \A id \in TaskIds :
        LET task == TaskAt(id)
        IN  /\ task.asst \in 1..Len(messages)
            /\ messages[task.asst] = AssistantTurn(task.call)
            /\ \A k \in InvocationsOf(id) : task.asst <= invocations[k].at
            /\ task.tool # 0 =>
                 /\ task.asst < task.tool
                 /\ task.tool \in ToolTurns
                 /\ messages[task.tool].name = task.call.name

\* two invokers of one round complete in the reverse of their start order
C18_Witness ==
    \E r \in 1..Len(rounds) :
        /\ Len(rounds[r]) = 2
        /\ Invoked(<<r, 1>>) /\ Invoked(<<r, 2>>)
        /\ rounds[r][2].tool # 0
        /\ rounds[r][1].tool > rounds[r][2].tool
        /\ rounds[r][1].asst < rounds[r][2].asst


\* C19: when the model call that follows round N (the call of round N+1 or
\* the final call) is issued, every invoker started in round N has settled
\* and the messages passed to that call contain every turn of round N: the
\* assistant turn of each request and the tool turn of each started invoker.
C19_RoundBarrier ==
    \A k \in 2..Len(aiCalls) :
        /\ k - 1 <= Len(rounds)
        /\ \A i \in 1..Len(rounds[k - 1]) :
             LET task == rounds[k - 1][i]
                 sent == aiCalls[k].messages
             IN  /\ task.st \notin {"pending", "thrown"}
                 /\ task.invoker # "pending"
                 /\ task.asst \in 1..Len(sent)
                 /\ sent[task.asst] = AssistantTurn(task.call)
                 /\ Invoked(<<k - 1, i>>) =>
                      /\ task.tool \in 1..Len(sent)
                      /\ sent[task.tool].role = "tool"
                      /\ sent[task.tool] = messages[task.tool]

C19_Witness ==
    /\ pc = "resolved"
    /\ Len(aiCalls) = 3
    /\ Invoked(<<1, 1>>) /\ rounds[1][1].invoker = "resolved"
    /\ Invoked(<<2, 1>>) /\ rounds[2][1].invoker = "rejected"


\* the task's request names a descriptor that has no invoker
SchemaOnly(task) ==
    /\ SelectedTool(task.call.name).found
    /\ SelectedTool(task.call.name).tool.function = Undefined

\* C20: a request resolving to a descriptor without an invoker is a no-op:
\* no tool-role turn is appended for it and nothing is invoked, its task
\* does not throw, the other requests of its round that reach an invoker
\* are still invoked, and a run whose requests are all of this kind rejects
\* only if a model call fails.
C20_NoInvokerNoOp ==
    /\ \A id \in TaskIds :
         SchemaOnly(TaskAt(id)) =>
            /\ TaskAt(id).st = "noinvoker"
            /\ TaskAt(id).tool = 0
            /\ TaskAt(id).message = <<>>
            /\ ~Invoked(id)
            /\ \A j \in 1..Len(rounds[id[1]]) :
                 Reached(rounds[id[1]][j].call) # Undefined => Invoked(<<id[1], j>>)
    /\ (pc = "rejected" /\ \A id \in TaskIds : SchemaOnly(TaskAt(id))) => ModelFailed
    /\ \A k \in ToolTurns : messages[k].name # "c"

C20_Witness ==
    /\ pc = "resolved"
    /\ Len(aiCalls) = 3
    /\ Len(rounds[1]) = 2
    /\ SchemaOnly(rounds[1][1])
    /\ rounds[1][2].invoker = "resolved"
    /\ Cardinality(ToolTurns) = 1


(***************************************************************************)
(* validateArgsWithZod (src/src/logger.ts), on its own: one call of it,    *)
(* with the declared properties and the arguments drawn from bounded sets. *)
(***************************************************************************)
\* deepest nesting of arrays/objects in the declared schemas and the values
MaxNesting == 1

\* a schema without a type, and what schema.items is when items is missing
\* (reading .type of it throws a TypeError instead of the Error of the
\* default case; either way the conversion throws)
MissingType == [type |-> "undefined"]

RECURSIVE SchemasUpTo(_)
\* the declared schemas: the four scalar types, an unsupported type, a
\* missing type, arrays (with and without items) and one-property objects,
\* with and without a `required` list that names no property
SchemasUpTo(n) ==
    LET leaves == {[type |-> ty] : ty \in {"string", "number", "integer", "boolean", "null"}}
                  \cup {MissingType}
    IN  IF n = 0 THEN leaves
        ELSE LET below == SchemasUpTo(n - 1)
             IN  below
                 \cup {[type |-> "array", items |-> sub] : sub \in below}
                 \cup {[type |-> "object", properties |-> [y |-> sub]] : sub \in below}
                 \cup {[type |-> "object", properties |-> [y |-> sub],
                        required |-> <<>>] : sub \in below}
                 \cup {[type |-> "object", properties |-> [k \in {} |-> MissingType]]}

RECURSIVE ValuesUpTo(_)
\* the argument values: scalars, null, undefined, short arrays and objects
ValuesUpTo(n) ==
    LET leaves == {JStr("s"), JNum(1, TRUE), JNum(1, FALSE), JBool(TRUE), JNull, JUndefined}
    IN  IF n = 0 THEN leaves
        ELSE LET below == ValuesUpTo(n - 1)
             IN  below
                 \cup {JArr(<<>>), EmptyObject}
                 \cup {JArr(<<v>>) : v \in below}
                 \cup {JObj([y |-> v]) : v \in below}

\* the properties of a tool's parameters: none, one property x, or the
\* properties x and w
PropertySets ==
    {[k \in {} |-> MissingType]}
    \cup {[x |-> sch] : sch \in SchemasUpTo(MaxNesting)}
    \cup {[x |-> sch, w |-> [type |-> "boolean"]] : sch \in SchemasUpTo(MaxNesting)}

\* the arguments of a tool call: any value, or an object with the key x,
\* alone, with the key w or with a key z that no tool declares
ArgumentValues ==
    ValuesUpTo(MaxNesting)
    \cup {JObj([x |-> v]) : v \in ValuesUpTo(MaxNesting)}
    \cup {JObj([x |-> v, w |-> JBool(TRUE)]) : v \in ValuesUpTo(MaxNesting)}
    \cup {JObj([x |-> v, z |-> JStr("s")]) : v \in ValuesUpTo(MaxNesting)}

\* the selector is not being called
TrimIdle ==
    /\ candidates = <<>>
    /\ trimPc = "idle"
    /\ trimCalls = <<>>
    /\ toolsResponse = NoResponse
    /\ returnedTools = <<>>

ValidateInit ==
    /\ RunIdle
    /\ TrimIdle
    /\ OpenAPIIdle
    /\ LoggerIdle
    /\ vArgs \in ArgumentValues
    /\ vProperties \in PropertySets
    /\ vResult = "called"

\* validateArgsWithZod(args, properties) runs to its return or its throw
ValidateArgs ==
    /\ vResult = "called"
    /\ vResult' = validateArgsWithZod(vArgs, vProperties)
    /\ UNCHANGED <<vArgs, vProperties, runVars, trimVars, openapiVars, loggerVars>>

ValidateNext == ValidateArgs

SpecValidate == ValidateInit /\ [][ValidateNext]_vars

RECURSIVE AllTypesSupported(_)
\* every type declared in the schema, at any depth, is one of the six
AllTypesSupported(schema) ==
    /\ schema.type \in {"string", "number", "integer", "boolean", "array", "object"}
    /\ schema.type = "array" => AllTypesSupported(schema.items)
    /\ schema.type = "object" =>
         \A key \in DOMAIN schema.properties : AllTypesSupported(schema.properties[key])

\* C21: validateArgsWithZod returns a boolean and never throws, for every
\* arguments value, whenever every declared type (at top level and nested)
\* is one of string, number, integer, boolean, array, object; when some
\* declared type is unsupported or missing it throws, whatever the arguments.
C21_ValidatorTotal ==
    vResult \notin {"idle", "called"} =>
        IF \A key \in DOMAIN vProperties : AllTypesSupported(vProperties[key])
        THEN vResult \in {"true", "false"}
        ELSE vResult = "throws"

\* a supported nested schema and arguments that are null
C21_Witness ==
    /\ vResult = "false"
    /\ vArgs = JNull
    /\ vProperties = [x |-> [type |-> "array", items |-> [type |-> "integer"]]]


(***************************************************************************)
(* The run of runWithTools, continued.                                     *)
(***************************************************************************)
\* the tasks whose invoker returned a value
Succeeded == {id \in TaskIds : TaskAt(id).invoker = "resolved"}

\* the tasks that appended a tool-role turn
WithToolTurn == {id \in TaskIds : TaskAt(id).tool # 0}

\* C22: on a successful invocation the appended tool-role turn has the name
\* of the selected tool and, as content, the JSON serialization of the
\* invoker's return value (a returned string appears quoted, not as it
\* is); exactly one such turn is appended per successful invocation.
C22_ToolResultTurn ==
    /\ \A id \in Succeeded :
         LET task == TaskAt(id)
         IN  /\ task.tool \in ToolTurns
             /\ messages[task.tool].name = SelectedTool(task.call.name).tool.name
             /\ messages[task.tool].content = JSONstringify(JStr("r"))
             /\ messages[task.tool].content # JStr("r")
    /\ \A id1 \in WithToolTurn : \A id2 \in WithToolTurn :
         TaskAt(id1).tool = TaskAt(id2).tool => id1 = id2
    /\ Cardinality(ToolTurns) = Cardinality(WithToolTurn)

C22_Witness ==
    /\ Cardinality(Succeeded) = 2
    /\ Cardinality(ToolTurns) = 2
    /\ \E id \in Succeeded : TaskAt(id).call.name = "d"


(***************************************************************************)
(* createToolsFromOpenAPISpec (src/src/createToolsFromOpenAPISpec.ts) and  *)
(* the invokers it builds, on their own.                                   *)
(***************************************************************************)
\* pieces of the text of a URL path: plain text, a {name} placeholder as
\* written, and the percent-encoded form of a piece
Lit(text) == [k |-> "lit", v |-> text]
Brace(name) == [k |-> "brace", v |-> name]
Pct(piece) == [k |-> "pct", of |-> piece]

\* the spec argument. text is what the string holds: a JSON document, a
\* block-style YAML document, a flow-style YAML document ("{openapi: 3.0.0,
\* ...}", which is no JSON), text that neither parser accepts (starting
\* with "{" or not), or the location of such a text; http tells whether
\* the string starts with "http" ("HTTPS://host/api.yaml" does not)
InlineTexts == {"json", "yaml", "yamlflow", "badjson", "badyaml"}
InlineSources == {[text |-> tx, http |-> FALSE] : tx \in InlineTexts}
LocationSources == {[text |-> "location", http |-> h] : h \in BOOLEAN}
Sources == InlineSources \cup LocationSources

\* the operations of the described API
GetUser ==
    [path |-> <<Lit("/users/"), Brace("id")>>, method |-> "get",
     operationId |-> "getUser", requestBody |-> FALSE,
     parameters |-> <<[name |-> "id", in |-> "path", type |-> "string"]>>]
CreateUser ==
    [path |-> <<Lit("/users")>>, method |-> "post",
     operationId |-> "createUser", requestBody |-> TRUE,
     parameters |-> <<>>]
PingUser ==
    [path |-> <<Lit("/users/"), Brace("id"), Lit("/ping")>>, method |-> "post",
     operationId |-> "pingUser", requestBody |-> FALSE,
     parameters |-> <<[name |-> "id", in |-> "path", type |-> "string"],
                      [name |-> "q", in |-> "query", type |-> "string"]>>]

\* the document every parseable text describes
TheDocument ==
    [kind |-> "document", server |-> "https://api.example.com",
     operations |-> <<GetUser, CreateUser, PingUser>>]
UndefinedDocument == [kind |-> "undefined"]
ScalarDocument == [kind |-> "string"]

\* spec.startsWith("http")
StartsWithHttp(src) == src.http

\* content.trim().startsWith("{")
TrimStartsWithBrace(content) == content.text \in {"json", "yamlflow", "badjson"}

\* JSON.parse(content)
JSONparse(content) ==
    IF content.text = "json" THEN [threw |-> FALSE, value |-> TheDocument]
    ELSE [threw |-> TRUE, value |-> UndefinedDocument]

\* YAML.parse(content): a location is a plain scalar and parses to a string
YAMLparse(content) ==
    CASE content.text \in {"json", "yaml", "yamlflow"} ->
            [threw |-> FALSE, value |-> TheDocument]
      [] content.text = "location" -> [threw |-> FALSE, value |-> ScalarDocument]
      [] OTHER -> [threw |-> TRUE, value |-> UndefinedDocument]

\* the try/catch of fetchSpec: the parsed content, undefined if the parser threw
ParseContent(content) ==
    LET parsed == IF TrimStartsWithBrace(content) THEN JSONparse(content)
                  ELSE YAMLparse(content)
    IN  IF parsed.threw THEN UndefinedDocument ELSE parsed.value

PathGroups == {"path", "query", "header", "cookie", "formData", "body"}

\* extractParameters: per group, the declared parameters and their schemas
ExtractParameters(operation) ==
    [g \in PathGroups |->
        LET declared == {i \in 1..Len(operation.parameters) : operation.parameters[i].in = g}
        IN  [n \in {operation.parameters[i].name : i \in declared} |->
                [type |-> operation.parameters[
                              CHOOSE i \in declared : operation.parameters[i].name = n].type]]]

\* the invoker createToolFunction returns: a closure over meta and requestBody
ToolFunction(document, operation) ==
    [url |-> [origin |-> document.server, path |-> operation.path],
     method |-> operation.method, requestBody |-> operation.requestBody]

\* the descriptor pushed for an operation
BuildTool(document, operation) ==
    LET params == ExtractParameters(operation)
        present == {g \in PathGroups : DOMAIN params[g] # {}}
    IN  [name |-> operation.operationId,
         parameters |-> Parameters([g \in present |->
                            [type |-> "object", properties |-> params[g]]]),
         function |-> ToolFunction(document, operation)]

\* the loop over openapiSpec.paths: a string has no paths
BuildTools(document) ==
    IF document.kind = "document"
    THEN [i \in 1..Len(document.operations) |-> BuildTool(document, document.operations[i])]
    ELSE <<>>

\* createToolsFromOpenAPISpec after fetchSpec resolved with document
Built(document) ==
    /\ openapiSpec' = document
    /\ IF document.kind = "undefined"
       THEN oaPc' = "failed" /\ oaTools' = <<>>
       ELSE oaPc' = "built" /\ oaTools' = BuildTools(document)

\* createToolsFromOpenAPISpec up to its return, its throw, or the fetch of fetchSpec
CreateTools ==
    /\ oaPc = "start"
    /\ IF StartsWithHttp(spec)
       THEN /\ fetchCalls' = Append(fetchCalls, spec)
            /\ oaPc' = "fetchingSpec"
            /\ UNCHANGED <<openapiSpec, oaTools>>
       ELSE Built(ParseContent(spec)) /\ UNCHANGED fetchCalls
    /\ UNCHANGED <<spec, config, oaCall, toolResult, oaTurn>>
    /\ UNCHANGED <<runVars, trimVars, validateVars, loggerVars>>

\* the fetch of fetchSpec resolves: whatever the status, the text is parsed
SpecFetchResolves ==
    /\ oaPc = "fetchingSpec"
    /\ \E content \in InlineSources : Built(ParseContent(content))
    /\ UNCHANGED <<spec, config, fetchCalls, oaCall, toolResult, oaTurn>>
    /\ UNCHANGED <<runVars, trimVars, validateVars, loggerVars>>

\* the fetch of fetchSpec throws: createToolsFromOpenAPISpec rejects with its error
SpecFetchThrows ==
    /\ oaPc = "fetchingSpec"
    /\ oaPc' = "fetchFailed"
    /\ UNCHANGED <<spec, config, fetchCalls, openapiSpec, oaTools, oaCall, toolResult, oaTurn>>
    /\ UNCHANGED <<runVars, trimVars, validateVars, loggerVars>>


\* largest number of rules in config.overrides
MaxRules == 1

\* the matchers of the rules: accepting every request, the POST requests, none
Matchers == {"any", "post", "never"}

\* rule.matcher({url, method})
Matches(rule, method) ==
    \/ rule.matcher = "any"
    \/ rule.matcher = "post" /\ method = "post"

\* the values of a rule: one of the six kinds of value
RuleValues ==
    {[pathData |-> [id |-> "o v"]], [query |-> [k |-> "o"]], [body |-> [b |-> "o"]],
     [headers |-> [h |-> "o"]], [cookies |-> [c |-> "o"]], [formData |-> [f |-> "o"]]}

Rules == {[matcher |-> m, values |-> v] : m \in Matchers, v \in RuleValues}

\* the args the invoker is called with: null, an object with some of the
\* sub-keys, or an object with a parameter at its top level
SubArgs ==
    [path |-> JObj([id |-> JStr("a b")]), query |-> JObj([q |-> JStr("v")]),
     header |-> JObj([h |-> JStr("v")]), body |-> JObj([b |-> JStr("v")]),
     cookie |-> JObj([c |-> JStr("v")]), formData |-> JObj([f |-> JStr("v")])]

ToolArgs ==
    {JNull, JObj([q |-> JStr("v")])}
    \cup {JObj([g \in present |-> SubArgs[g]]) :
            present \in SUBSET {"path", "query", "header", "body"}}
    \cup {JObj([g \in {only} |-> SubArgs[g]]) : only \in {"cookie", "formData"}}

\* the order in which for-in visits the keys used here
KeyOrder ==
    <<"path", "header", "cookie", "formData", "body", "id", "q", "k", "b", "h", "c", "f",
      "query">>
Ordered(keys) == SelectSeq(KeyOrder, LAMBDA key : key \in keys)

\* String(value), as URLSearchParams.append and Headers.append apply it
ToStr(value) == IF value.t = "string" THEN value.v ELSE "[object Object]"

\* the entries of an object of JSON values, and of a rule's record of strings
Entries(object) ==
    [i \in 1..Len(Ordered(DOMAIN object.v)) |->
        <<Ordered(DOMAIN object.v)[i], ToStr(object.v[Ordered(DOMAIN object.v)[i]])>>]
RuleEntries(record) ==
    [i \in 1..Len(Ordered(DOMAIN record)) |->
        <<Ordered(DOMAIN record)[i], record[Ordered(DOMAIN record)[i]]>>]

\* the texts that encodeURIComponent changes
UnsafeTexts == {"a b", "o v"}

\* encodeURIComponent(text)
EncodeURIComponent(text) == IF text \in UnsafeTexts THEN Pct(Lit(text)) ELSE Lit(text)

\* how the URL parser and the pathname setter store a path: braces and
\* spaces are percent-encoded, percent-encoded pieces stay
EncodePath(path) ==
    [i \in 1..Len(path) |->
        CASE path[i].k = "brace" -> Pct(path[i])
          [] path[i].k = "lit" /\ path[i].v \in UnsafeTexts -> Pct(path[i])
          [] OTHER -> path[i]]

\* decodeURIComponent(pathname)
DecodePath(path) ==
    [i \in 1..Len(path) |-> IF path[i].k = "pct" THEN path[i].of ELSE path[i]]

\* pathname.includes(`{${key}}`)
IncludesBrace(path, key) == \E i \in 1..Len(path) : path[i] = Brace(key)

\* pathname.replace(`{${key}}`, text): the first occurrence only
ReplaceBrace(path, key, piece) ==
    LET first == CHOOSE i \in 1..Len(path) :
                    /\ path[i] = Brace(key)
                    /\ \A j \in 1..(i - 1) : path[j] # Brace(key)
    IN  [path EXCEPT ![first] = piece]

RECURSIVE SubstituteAll(_, _, _)
\* for (const key in data) if (path.includes(...)) path = path.replace(...)
SubstituteAll(path, data, keys) ==
    IF keys = <<>> THEN path
    ELSE LET key == Head(keys)
             next == IF IncludesBrace(path, key)
                     THEN ReplaceBrace(path, key, EncodeURIComponent(data[key]))
                     ELSE path
         IN  SubstituteAll(next, data, Tail(keys))


\* the parts of a request the invoker builds before its body is decided
NoBody == [t |-> "undefined"]
EmptyRecord == [key \in {} |-> ""]
RequestStart(fn) ==
    [headers |-> <<>>, pathname |-> EncodePath(fn.url.path), query |-> <<>>,
     body |-> EmptyRecord, initBody |-> NoBody]

\* `${key}=${value}` joined with "; "
CookieText(entries) == [t |-> "cookie", entries |-> entries]

\* URLSearchParams.toString() of the form data
FormText(entries) == [t |-> "form", entries |-> entries]

\* the body of the loop over config.overrides for a rule whose matcher accepts
ApplyRule(st, rule) ==
    LET values == rule.values
        has(kind) == kind \in DOMAIN values
        headers1 == IF has("headers") THEN st.headers \o RuleEntries(values.headers)
                    ELSE st.headers
    IN  [headers |-> IF has("cookies")
                     THEN Append(headers1, <<"Cookie", CookieText(RuleEntries(values.cookies))>>)
                     ELSE headers1,
         pathname |-> IF has("pathData")
                      THEN SubstituteAll(st.pathname, values.pathData,
                                         Ordered(DOMAIN values.pathData))
                      ELSE st.pathname,
         query |-> IF has("query") THEN st.query \o RuleEntries(values.query) ELSE st.query,
         body |-> IF has("body")
                  THEN [key \in DOMAIN st.body \cup DOMAIN values.body |->
                           IF key \in DOMAIN values.body THEN values.body[key]
                           ELSE st.body[key]]
                  ELSE st.body,
         initBody |-> IF has("formData") THEN FormText(RuleEntries(values.formData))
                      ELSE st.initBody]

RECURSIVE ApplyRules(_, _, _)
\* for (const rule of config.overrides) if (rule.matcher(...)) ...
ApplyRules(st, rules, method) ==
    IF rules = <<>> THEN st
    ELSE ApplyRules(IF Matches(Head(rules), method) THEN ApplyRule(st, Head(rules)) ELSE st,
                    Tail(rules), method)

\* the test before `args.query = args`
Reinterprets(args) ==
    /\ DOMAIN args.v # {}
    /\ \A g \in {"header", "query", "cookie", "formData", "body"} : g \notin DOMAIN args.v

\* the entries the loop over args.query appends. After `args.query = args`
\* the object is its own query property: its keys are its own keys and
\* "query", whose value is the object itself
ArgsQueryEntries(args) ==
    IF Reinterprets(args)
    THEN LET keys == Ordered(DOMAIN args.v \cup {"query"})
         IN  [i \in 1..Len(keys) |->
                <<keys[i], IF keys[i] = "query" THEN "[object Object]"
                           ELSE ToStr(args.v[keys[i]])>>]
    ELSE IF "query" \in DOMAIN args.v THEN Entries(args.v.query) ELSE <<>>

\* meta.method.toUpperCase()
ToUpperCase(method) == IF method = "get" THEN "GET" ELSE "POST"

\* the url and init the invoker passes to fetch, for args that are an object
InvokerRequest(fn, overrides, args) ==
    LET has(g) == g \in DOMAIN args.v
        st == ApplyRules(RequestStart(fn), overrides, fn.method)
        decoded == DecodePath(st.pathname)
        replaced == IF has("path")
                    THEN SubstituteAll(decoded,
                            [key \in DOMAIN args.v.path.v |-> ToStr(args.v.path.v[key])],
                            Ordered(DOMAIN args.v.path.v))
                    ELSE decoded
        headers1 == IF has("header") THEN st.headers \o Entries(args.v.header) ELSE st.headers
        headers2 == IF has("cookie")
                    THEN Append(headers1, <<"Cookie", CookieText(Entries(args.v.cookie))>>)
                    ELSE headers1
        json == fn.requestBody \/ DOMAIN st.body # {}
    IN  [method |-> ToUpperCase(fn.method),
         origin |-> fn.url.origin,
         pathname |-> EncodePath(replaced),
         search |-> st.query \o ArgsQueryEntries(args),
         headers |-> IF json THEN Append(headers2, <<"Content-Type", "application/json">>)
                     ELSE headers2,
         body |-> IF fn.requestBody
                  THEN IF has("body") THEN JSONstringify(args.v.body) ELSE NoBody
                  ELSE IF DOMAIN st.body # {}
                       THEN JSONstringify(JObj([key \in DOMAIN st.body |-> JStr(st.body[key])]))
                       ELSE st.initBody]

\* what fetch(url, init) may do: resolve with a response, or throw an Error
\* or another value; a GET request with a body always throws
FetchOutcomes(request) ==
    {[how |-> "throw", isError |-> TRUE, message |-> "fetch failed"]}
    \cup IF request.method = "GET" /\ request.body # NoBody THEN {}
         ELSE {[how |-> "resolve", text |-> "response text"],
               [how |-> "throw", isError |-> FALSE, message |-> "thrown value"]}

\* Object.keys(null) throws before the try block
NullArgsMessage == <<"Cannot convert undefined or null to object">>

\* the turn runWithTools pushes after `await fn(args)` settled
SettlementTurn(tool, settlement) ==
    IF settlement.how = "resolve" THEN ToolResultTurn(tool, settlement.value)
    ELSE ToolErrorTurn(tool, settlement.error)

OpenAPIInit ==
    /\ RunIdle
    /\ TrimIdle
    /\ ValidateIdle
    /\ LoggerIdle
    /\ spec \in Sources
    /\ config \in SeqsUpTo(Rules, MaxRules)
    /\ oaPc = "start"
    /\ fetchCalls = <<>>
    /\ openapiSpec = NoDocument
    /\ oaTools = <<>>
    /\ oaCall = NoCall
    /\ toolResult = NoSettle
    /\ oaTurn = NoTurn

\* a built invoker is called, as runWithTools calls it (`await fn(args)`),
\* and runs up to its fetch; with null args it throws and runWithTools
\* pushes the error turn
InvokeTool ==
    /\ oaPc = "built"
    /\ \E i \in 1..Len(oaTools) : \E args \in ToolArgs :
         IF args = JNull
         THEN /\ oaCall' = [made |-> TRUE, tool |-> i, args |-> args, sent |-> FALSE]
              /\ toolResult' = [how |-> "reject", error |-> ErrorValue(NullArgsMessage),
                                fetch |-> "none"]
              /\ oaTurn' = SettlementTurn(oaTools[i], toolResult')
              /\ oaPc' = "settled"
         ELSE /\ oaCall' = [made |-> TRUE, tool |-> i, args |-> args, sent |-> TRUE,
                            request |-> InvokerRequest(oaTools[i].function, config, args)]
              /\ oaPc' = "fetching"
              /\ UNCHANGED <<toolResult, oaTurn>>
    /\ UNCHANGED <<spec, config, fetchCalls, openapiSpec, oaTools>>
    /\ UNCHANGED <<runVars, trimVars, validateVars, loggerVars>>

\* a variant of the invoker that lets the error of fetch escape
InvokerSettlementRethrowing(outcome) ==
    IF outcome.how = "resolve"
    THEN [how |-> "resolve", value |-> outcome.text, fetch |-> outcome.how]
    ELSE [how |-> "reject", error |-> ErrorValue(<<outcome.message>>), fetch |-> outcome.how]

\* the try/catch around fetch: the invoker resolves with the response text,
\* or with JSON.stringify({error: ...}) when fetch throws
InvokerSettlement(outcome) ==
    [how |-> "resolve",
     value |-> IF outcome.how = "resolve" THEN outcome.text
               ELSE JSONstringify(JObj([error |-> JStr(outcome.message)])),
     fetch |-> outcome.how]

\* the invoker's fetch settles: the invoker settles, and runWithTools
\* pushes the tool-role turn
ToolFetchSettles ==
    /\ oaPc = "fetching"
    /\ \E outcome \in FetchOutcomes(oaCall.request) :
         /\ toolResult' = InvokerSettlement(outcome)
         /\ oaTurn' = SettlementTurn(oaTools[oaCall.tool], InvokerSettlement(outcome))
    /\ oaPc' = "settled"
    /\ UNCHANGED <<spec, config, fetchCalls, openapiSpec, oaTools, oaCall>>
    /\ UNCHANGED <<runVars, trimVars, validateVars, loggerVars>>

OpenAPINext ==
    \/ CreateTools
    \/ SpecFetchResolves
    \/ SpecFetchThrows
    \/ InvokeTool
    \/ ToolFetchSettles

SpecOpenAPI == OpenAPIInit /\ [][OpenAPINext]_vars


\* the spec argument is itself a JSON or YAML document
InlineDocument == spec.text \in {"json", "yaml", "yamlflow"}

BuilderEnded == oaPc \notin {"start", "fetchingSpec"}

\* C24: createToolsFromOpenAPISpec accepts an inline JSON or YAML document
\* alike; when the input cannot be parsed directly it fetches the input as
\* a location and parses the fetched text; it fails only when both direct
\* parsing and fetching fail.
C24_ParseOrFetch ==
    /\ (BuilderEnded /\ InlineDocument) =>
          /\ openapiSpec = TheDocument
          /\ Len(oaTools) = Len(TheDocument.operations)
    /\ (oaPc # "start" /\ ~InlineDocument) => fetchCalls # <<>>
    /\ oaPc \in {"failed", "fetchFailed"} => (~InlineDocument /\ fetchCalls # <<>>)


\* the invoker reached its fetch; the closure it is and the request it built
Sent == oaCall.made /\ oaCall.sent
CalledFunction == oaTools[oaCall.tool].function

\* the rules of config.overrides whose matcher accepts the called operation
MatchingRules == {i \in 1..Len(config) : Matches(config[i], CalledFunction.method)}

\* C23: the body values of every override rule whose matcher accepts the
\* operation are in the body of the outgoing request, whether or not the
\* operation declares a JSON request body; when no rule's matcher accepts,
\* the request is the one built without any rule.
C23_OverrideBodyInjected ==
    Sent =>
        /\ \A i \in MatchingRules :
             "body" \in DOMAIN config[i].values =>
                /\ oaCall.request.body.t = "jsontext"
                /\ oaCall.request.body.of.t = "object"
                /\ \A key \in DOMAIN config[i].values.body :
                     /\ key \in DOMAIN oaCall.request.body.of.v
                     /\ oaCall.request.body.of.v[key] = JStr(config[i].values.body[key])
        /\ MatchingRules = {} =>
             oaCall.request = InvokerRequest(CalledFunction, <<>>, oaCall.args)


\* the query entries that the matching override rules contribute
RuleQueryEntries == InvokerRequest(CalledFunction, config, EmptyObject).search

SubKeyPresent ==
    \E g \in {"path", "query", "header", "cookie", "formData", "body"} :
        g \in DOMAIN oaCall.args.v

\* C28: the invoker takes the whole arguments object as the query
\* parameters only when it is non-empty and has none of the sub-keys path,
\* query, header, cookie, formData, body; when one of them is present (in
\* particular only path) the query string holds only the entries of
\* args.query and of the matching override rules.
C28_QueryReinterpretation ==
    Sent =>
        /\ SubKeyPresent =>
             oaCall.request.search =
                RuleQueryEntries \o
                (IF "query" \in DOMAIN oaCall.args.v THEN Entries(oaCall.args.v.query)
                 ELSE <<>>)
        /\ (~SubKeyPresent /\ DOMAIN oaCall.args.v # {}) =>
             \A key \in DOMAIN oaCall.args.v :
                \E i \in 1..Len(oaCall.request.search) :
                    oaCall.request.search[i] = <<key, ToStr(oaCall.args.v[key])>>


\* C29: the pathData values of a matching override rule stand, URL-encoded,
\* in the outgoing request's path in place of the {name} placeholders of
\* the operation's path that the rule names.
C29_OverridePathData ==
    Sent =>
        \A i \in MatchingRules :
            "pathData" \in DOMAIN config[i].values =>
                \A key \in DOMAIN config[i].values.pathData :
                    \A at \in 1..Len(CalledFunction.url.path) :
                        CalledFunction.url.path[at] = Brace(key) =>
                            oaCall.request.pathname[at] =
                                EncodeURIComponent(config[i].values.pathData[key])


\* C30: an invoker whose fetch throws resolves with a JSON text of the form
\* {"error": message} instead of rejecting; runWithTools records it as an
\* ordinary tool-role result turn (the JSON serialization of that string),
\* not as an "Error executing tool" turn.
C30_FetchFailureResolves ==
    (oaPc = "settled" /\ toolResult.fetch = "throw") =>
        /\ toolResult.how = "resolve"
        /\ toolResult.value.t = "jsontext"
        /\ toolResult.value.of.t = "object"
        /\ DOMAIN toolResult.value.of.v = {"error"}
        /\ toolResult.value.of.v.error \in {JStr("fetch failed"), JStr("thrown value")}
        /\ oaTurn.role = "tool"
        /\ oaTurn.name = oaTools[oaCall.tool].name
        /\ oaTurn.content = JSONstringify(JStr(toolResult.value))
        /\ oaTurn.content.t # "text"

\* a GET request that carries the body of an override rule: fetch throws
C30_Witness ==
    /\ oaPc = "settled"
    /\ toolResult.fetch = "throw"
    /\ oaCall.request.method = "GET"
    /\ oaCall.request.body # NoBody
    /\ oaTurn.role = "tool"


(***************************************************************************)
(* The run of runWithTools, continued.                                     *)
(***************************************************************************)
\* the response of the round that is being joined carried a request
RoundHadRequests == ~NoRequests(responses[Len(responses)])

\* C25: after a round the loop issues another tool-offering model call if
\* and only if the remaining budget is above 0 and the round's response
\* carried at least one non-null request, and then the budget drops by
\* exactly 1; otherwise it issues the final call and the budget stays. This
\* holds when every request of the round was skipped.
C25_RoundContinuation ==
    [][(pc = "join" /\ pc' \in {"model", "final"}) =>
          /\ Len(aiCalls') = Len(aiCalls) + 1
          /\ IF maxRecursiveToolRuns > 0 /\ RoundHadRequests
             THEN /\ pc' = "model"
                  /\ aiCalls'[Len(aiCalls')].tools.present
                  /\ maxRecursiveToolRuns' = maxRecursiveToolRuns - 1
             ELSE /\ pc' = "final"
                  /\ ~aiCalls'[Len(aiCalls')].tools.present
                  /\ maxRecursiveToolRuns' = maxRecursiveToolRuns]_vars

\* a second tool-offering call after a round whose requests were all skipped
C25_Witness ==
    /\ Len(aiCalls) >= 2
    /\ aiCalls[2].tools.present
    /\ Len(rounds[1]) = 2
    /\ \A i \in 1..Len(rounds[1]) : rounds[1][i].st \in {"unknown", "noinvoker", "invalid"}
    /\ maxRecursiveToolRuns = cfg.maxRecursiveToolRuns - 1


\* the tasks whose invoker was started and has not settled
Stalled == {id \in TaskIds : TaskAt(id).st = "pending"}

\* C26: while an invoker started in round N has not settled, the model call
\* of round N+1 and the final call are not issued and the run does not
\* return (it ends only if another task of the round throws); the other
\* invokers of round N are started all the same, and the tool-role turn of
\* each one that returned is appended.
C26_NoCancellation ==
    \A id \in Stalled :
        /\ id[1] = Len(rounds)
        /\ Len(aiCalls) = id[1]
        /\ pc \in {"join", "rejected"}
        /\ pc = "rejected" => firstReject.set
        /\ result = NoValue
        /\ \A j \in 1..Len(rounds[id[1]]) :
             LET other == rounds[id[1]][j]
             IN  /\ Reached(other.call) # Undefined => Invoked(<<id[1], j>>)
                 /\ other.invoker = "resolved" =>
                      /\ other.tool \in ToolTurns
                      /\ messages[other.tool] =
                            ToolResultTurn(SelectedTool(other.call.name).tool, "r")

\* the second invoker of a round returned while the first is still running
C26_Witness ==
    /\ pc = "join"
    /\ <<1, 1>> \in Stalled
    /\ Len(rounds[1]) = 2
    /\ rounds[1][2].invoker = "resolved"
    /\ rounds[1][2].tool \in ToolTurns
    /\ cfg.maxRecursiveToolRuns = 1


IsPrefix(short, long) ==
    /\ Len(short) <= Len(long)
    /\ \A k \in 1..Len(short) : long[k] = short[k]

AssistantTurns == {k \in 1..Len(messages) : messages[k].role = "assistant"}

\* the non-null requests of the response of round r
RequestsOf(r) == FilterBoolean(responses[r])

\* C27: the conversation is append-only: the messages passed to each model
\* call have the messages of the previous call, and the caller's messages,
\* as a prefix; a round with k non-null requests appends exactly k assistant
\* turns, one per request (skipped ones included), and at most k tool-role
\* turns, at most one per request.
C27_AppendOnly ==
    /\ [](/\ \A k \in 1..Len(aiCalls) :
                /\ IsPrefix(InputMessages, aiCalls[k].messages)
                /\ k > 1 => IsPrefix(aiCalls[k - 1].messages, aiCalls[k].messages)
                /\ IsPrefix(aiCalls[k].messages, messages)
          /\ Len(rounds) = Len(responses)
          /\ \A r \in 1..Len(rounds) :
                /\ Len(rounds[r]) = Len(RequestsOf(r))
                /\ \A i \in 1..Len(rounds[r]) :
                      /\ rounds[r][i].call = RequestsOf(r)[i]
                      /\ rounds[r][i].asst \in AssistantTurns
                      /\ rounds[r][i].tool # 0 => rounds[r][i].tool \in ToolTurns
          /\ \A id1 \in TaskIds : \A id2 \in TaskIds :
                (\/ TaskAt(id1).asst = TaskAt(id2).asst
                 \/ (TaskAt(id1).tool # 0 /\ TaskAt(id1).tool = TaskAt(id2).tool))
                   => id1 = id2
          /\ Cardinality(AssistantTurns) = Cardinality(TaskIds)
          /\ Cardinality(ToolTurns) = Cardinality(WithToolTurn))
    /\ [][IsPrefix(messages, messages')]_vars

\* two rounds: the first skips its request, the second appends a tool turn
C27_Witness ==
    /\ Len(aiCalls) = 3
    /\ Len(rounds[1]) = 1 /\ rounds[1][1].st = "unknown"
    /\ Len(rounds[2]) = 1 /\ rounds[2][1].tool # 0
    /\ Len(messages) = Len(InputMessages) + 3


(***************************************************************************)
(* The run of runWithTools when every awaited call settles: a run that can *)
(* take a step (a ready continuation, an ai.run call or a started invoker  *)
(* that has not settled) eventually takes one.                             *)
(***************************************************************************)
\* runs configured without a trimFunction: the default is the identity
InitIdentity == Init /\ cfg.trimFunction = "identity"

SpecLive == InitIdentity /\ [][Next]_vars /\ WF_vars(Next)

ToolLessCalls == {k \in 1..Len(aiCalls) : ToolLess(aiCalls[k])}

\* C31: if every model call and every invoker eventually returns or
\* throws, every run with the identity selector eventually resolves or
\* rejects, after at most maxRecursiveToolRuns + 1 tool-offering model
\* calls followed by at most one final tool-less call, whatever the model
\* answers.
C31_Termination ==
    /\ <>(pc \in {"resolved", "rejected"})
    /\ [](/\ cfg.trimFunction = "identity"
          /\ Cardinality(OfferingCalls) <= cfg.maxRecursiveToolRuns + 1
          /\ Cardinality(ToolLessCalls) <= 1
          /\ \A k \in ToolLessCalls : k = Len(aiCalls) /\ OfferingCalls = 1..(k - 1)
          /\ pc = "resolved" => Cardinality(ToolLessCalls) = 1)

\* a run that used its whole budget and resolved
C31_Witness ==
    /\ pc = "resolved"
    /\ cfg.trimFunction = "identity"
    /\ cfg.maxRecursiveToolRuns = 1
    /\ Cardinality(OfferingCalls) = 2
    /\ Cardinality(ToolLessCalls) = 1


(***************************************************************************)
(* The Logger (src/src/logger.ts) and the calls that switch it, on their   *)
(* own: calls of runWithTools and createToolsFromOpenAPISpec that overlap  *)
(* in one process, and calls of Logger.disableLogging by the caller.       *)
(***************************************************************************)
\* largest number of calls of runWithTools and createToolsFromOpenAPISpec
MaxLoggerRuns == 2
\* largest number of Logger calls followed per run
MaxLogCalls == 1
\* largest number of calls of Logger.disableLogging
MaxDisables == 1

\* a variant in which each run sets the Logger to its own verbose option
EnableFromVerbose(flag, verbose) == verbose

\* if (verbose) { Logger.enableLogging(); }
EnableIfVerbose(flag, verbose) == IF verbose THEN TRUE ELSE flag

\* Logger.info / Logger.error / Logger.warn: write only if enabled
LoggerWrite(flag, lines, line) == IF flag THEN Append(lines, line) ELSE lines

LoggerInit ==
    /\ RunIdle
    /\ TrimIdle
    /\ ValidateIdle
    /\ OpenAPIIdle
    /\ LoggerIdle

\* runWithTools is called: its prologue runs up to the first await
CallRunWithTools ==
    /\ Len(logRuns) < MaxLoggerRuns
    /\ \E verbose \in BOOLEAN :
         /\ enabled' = EnableIfVerbose(enabled, verbose)
         /\ logRuns' = Append(logRuns, [kind |-> "runWithTools", verbose |-> verbose,
                                        st |-> "running", calls |-> 0,
                                        passed |-> TRUE])
    /\ UNCHANGED <<console, disables>>
    /\ UNCHANGED <<runVars, trimVars, validateVars, openapiVars>>

\* createToolsFromOpenAPISpec is called: it awaits fetchSpec first. passed
\* tells whether a call has gone past its `if (verbose)` statement
CallCreateTools ==
    /\ Len(logRuns) < MaxLoggerRuns
    /\ \E verbose \in BOOLEAN :
         logRuns' = Append(logRuns, [kind |-> "createTools", verbose |-> verbose,
                                     st |-> "fetching", calls |-> 0,
                                     passed |-> FALSE])
    /\ UNCHANGED <<enabled, console, disables>>
    /\ UNCHANGED <<runVars, trimVars, validateVars, openapiVars>>

\* fetchSpec settles: without a document the builder throws, with one it
\* enables the Logger if asked to and returns the tools, whose invokers log
SpecFetched ==
    /\ \E i \in 1..Len(logRuns) : \E document \in BOOLEAN :
         /\ logRuns[i].st = "fetching"
         /\ IF document
            THEN /\ enabled' = EnableIfVerbose(enabled, logRuns[i].verbose)
                 /\ logRuns' = [logRuns EXCEPT ![i].st = "running", ![i].passed = TRUE]
            ELSE /\ logRuns' = [logRuns EXCEPT ![i].st = "ended"]
                 /\ UNCHANGED enabled
    /\ UNCHANGED <<console, disables>>
    /\ UNCHANGED <<runVars, trimVars, validateVars, openapiVars>>

\* a run (or an invoker of a built tool) calls Logger.info
LogCall ==
    /\ \E i \in 1..Len(logRuns) :
         /\ logRuns[i].st = "running"
         /\ logRuns[i].calls < MaxLogCalls
         /\ console' = LoggerWrite(enabled, console, [run |-> i, verbose |-> logRuns[i].verbose])
         /\ logRuns' = [logRuns EXCEPT ![i].calls = @ + 1]
    /\ UNCHANGED <<enabled, disables>>
    /\ UNCHANGED <<runVars, trimVars, validateVars, openapiVars>>

\* a run settles: nothing on its way out touches the Logger
RunEnds ==
    /\ \E i \in 1..Len(logRuns) :
         /\ logRuns[i].st = "running"
         /\ logRuns' = [logRuns EXCEPT ![i].st = "ended"]
    /\ UNCHANGED <<enabled, console, disables>>
    /\ UNCHANGED <<runVars, trimVars, validateVars, openapiVars>>

\* the caller calls Logger.disableLogging()
DisableLogging ==
    /\ disables < MaxDisables
    /\ enabled' = FALSE
    /\ disables' = disables + 1
    /\ UNCHANGED <<logRuns, console>>
    /\ UNCHANGED <<runVars, trimVars, validateVars, openapiVars>>

LoggerNext ==
    \/ CallRunWithTools
    \/ CallCreateTools
    \/ SpecFetched
    \/ LogCall
    \/ RunEnds
    \/ DisableLogging

SpecLogger == LoggerInit /\ [][LoggerNext]_vars

\* the runs that were asked to log and have passed their enabling statement
VerboseRuns == {i \in 1..Len(logRuns) : logRuns[i].verbose /\ logRuns[i].passed}

\* C32: runWithTools and createToolsFromOpenAPISpec only ever enable the
\* Logger: once a run with verbose = true has enabled it, it stays enabled
\* for every later or concurrent run, whose Logger calls all write, also
\* those of runs with verbose = false; only a call of Logger.disableLogging
\* turns it off.
C32_LoggingMonotone ==
    /\ []((VerboseRuns # {} /\ disables = 0) => enabled)
    /\ [][(enabled /\ ~enabled') => disables' = disables + 1]_vars
    /\ [][\A i \in 1..Len(logRuns) :
            (/\ Len(logRuns') = Len(logRuns)
             /\ logRuns'[i].calls = logRuns[i].calls + 1
             /\ enabled)
            => console' = Append(console, [run |-> i, verbose |-> logRuns[i].verbose])]_vars

\* a run with verbose = false writes after a verbose run has ended
C32_Witness ==
    /\ disables = 0
    /\ \E i \in 1..Len(logRuns) : logRuns[i].verbose /\ logRuns[i].st = "ended"
    /\ \E k \in 1..Len(console) : ~console[k].verbose


(***************************************************************************)
(* The order of the turns of one round.                                    *)
(***************************************************************************)
\* no invoker of round r threw synchronously
AllReturnPromises(r) == \A i \in 1..Len(rounds[r]) : rounds[r][i].invoker # "threw"

\* the invoker calls started in round r, in the order they were started
StartedIn(r) == SelectSeq(invocations, LAMBDA v : v.round = r)

\* the turns of round r are laid out as tool_calls.map leaves them
RequestOrder(r) ==
    LET tasks == rounds[r]
        calls == FilterBoolean(responses[r])
        started == StartedIn(r)
    IN  /\ Len(tasks) = Len(calls)
        /\ \A i \in 1..Len(tasks) :
             /\ tasks[i].call = calls[i]
             /\ messages[tasks[i].asst] = AssistantTurn(calls[i])
             /\ i > 1 => tasks[i].asst = tasks[i - 1].asst + 1
        /\ \A i, j \in 1..Len(tasks) : tasks[j].tool # 0 => tasks[j].tool > tasks[i].asst
        /\ \A k \in 1..Len(started) :
             /\ started[k].at = tasks[started[k].index].asst
             /\ k > 1 => started[k].index > started[k - 1].index

\* a task's tool-role turn is appended at the end when its invoker settles
CompletionOrder ==
    \A id \in TaskIds :
        (/\ AllReturnPromises(id[1])
         /\ TaskAt(id).tool = 0
         /\ rounds'[id[1]][id[2]].tool # 0)
        => /\ Len(messages') = Len(messages) + 1
           /\ rounds'[id[1]][id[2]].tool = Len(messages')
           /\ messages'[Len(messages')].role = "tool"

\* C33: in a round none of whose invokers throws synchronously, the
\* assistant turns of the round's requests are appended first and in request
\* order, the invokers are started in request order, and every tool-role
\* turn of the round comes after all the assistant turns of the round, each
\* appended at the end when its invoker completes.
C33_TurnOrder ==
    /\ [](\A r \in 1..Len(rounds) : AllReturnPromises(r) => RequestOrder(r))
    /\ [][CompletionOrder]_vars

\* two invokers of one round completed in the reverse of the request order
C33_Witness ==
    \E r \in 1..Len(rounds) :
        /\ Len(rounds[r]) = 2
        /\ AllReturnPromises(r)
        /\ rounds[r][1].call # rounds[r][2].call
        /\ rounds[r][2].tool # 0
        /\ rounds[r][1].tool > rounds[r][2].tool


(***************************************************************************)
(* A round that fails while invokers are in flight.                        *)
(***************************************************************************)
\* the tasks of the current round whose invoker has not settled
InFlight ==
    IF rounds = <<>> THEN {}
    ELSE {i \in 1..Len(rounds[Len(rounds)]) : rounds[Len(rounds)][i].st = "pending"}

\* C34: when a task of a round throws outside the invoker's try block, the
\* run can reject at once, whatever invokers of the round are in flight;
\* an invoker in flight can still settle and append its turn, also after the
\* run has rejected; and from the throw on no model call is issued.
C34_EarlyFailure ==
    /\ []((pc = "join" /\ firstReject.set) => ENABLED JoinRejects)
    /\ [](InFlight # {} => ENABLED InvokerSettles)
    /\ [][(firstReject.set \/ pc = "rejected")
            => (aiCalls' = aiCalls /\ pc' \in {pc, "rejected"})]_vars

\* strict validation threw for one request of the round and the invoker of
\* another appended its turn after the run had rejected
C34_Witness ==
    /\ pc = "rejected"
    /\ rounds # <<>>
    /\ \E i, j \in 1..Len(rounds[Len(rounds)]) :
         LET tasks == rounds[Len(rounds)]
         IN  /\ tasks[i].st = "thrown"
             /\ tasks[i].message = UnsupportedMessage
             /\ tasks[j].late
             /\ tasks[j].tool = Len(messages)


(***************************************************************************)
(* What validateArgsWithZod accepts.                                       *)
(***************************************************************************)
RECURSIVE OfDeclaredKind(_, _)
\* value is of the kind the schema declares
OfDeclaredKind(schema, value) ==
    IF schema.type \in {"string", "boolean"} THEN value.t = schema.type
    ELSE IF schema.type = "number" THEN value.t = "number"
    ELSE IF schema.type = "integer" THEN value.t = "number" /\ value.int
    ELSE IF schema.type = "array"
         THEN /\ value.t = "array"
              /\ \A i \in 1..Len(value.v) : OfDeclaredKind(schema.items, value.v[i])
    ELSE /\ schema.type = "object"
         /\ value.t = "object"
         /\ DOMAIN schema.properties \subseteq DOMAIN value.v
         /\ \A key \in DOMAIN schema.properties :
               OfDeclaredKind(schema.properties[key], value.v[key])

\* C35: when every declared type is supported, validateArgsWithZod returns
\* true exactly when args is an object that has, for every declared property
\* key, a value of the declared kind (an integer is an integral number,
\* arrays and objects are checked recursively); a declared property is
\* required whatever a `required` list says, and the keys of args that are
\* not declared are ignored.
C35_ValidationSemantics ==
    (/\ vResult \notin {"idle", "called"}
     /\ \A key \in DOMAIN vProperties : AllTypesSupported(vProperties[key]))
    => /\ vResult \in {"true", "false"}
       /\ vResult = "true" <=>
            /\ vArgs.t = "object"
            /\ DOMAIN vProperties \subseteq DOMAIN vArgs.v
            /\ \A key \in DOMAIN vProperties : OfDeclaredKind(vProperties[key], vArgs.v[key])

\* an object without the property its schema declares but does not require
\* is rejected, next to a key that is not declared
C35_Witness ==
    /\ vResult = "false"
    /\ vProperties = [x |-> [type |-> "object", properties |-> [y |-> [type |-> "integer"]],
                             required |-> <<>>]]
    /\ vArgs = JObj([x |-> JObj([k \in {} |-> JNull]), z |-> JStr("s")])

====
